---------------------------- MODULE Spec2Model ----------------------------
(***************************************************************************)
(* A model of the scoring pipeline of resume_relevance_checker:            *)
(* src/scoring/skill_extractor.py, src/scoring/scoring.py,                 *)
(* src/scoring/embeddings.py and src/scoring/grok_client.py.               *)
(*                                                                         *)
(* Python values are modelled as follows.                                  *)
(*   str        a TLA+ string; NonStr stands for a value that is not a     *)
(*              str (the number 12345, say), on which str methods raise.   *)
(*   list       a sequence.  list(set(..)) whose order is never read is a  *)
(*              set.                                                       *)
(*   dict       a function on a set of key strings.                        *)
(*   float      an exact rational [n, d], d > 0; round(x, 2) is rounding   *)
(*              to hundredths, ties to even.                               *)
(*   exception  a called function either returns Ret(v) or is Raised.      *)
(***************************************************************************)
EXTENDS Integers, Sequences, FiniteSets, TLC

-----------------------------------------------------------------------------
(* str methods *)

UPPERCASE == "ABCDEFGHIJKLMNOPQRSTUVWXYZ"
LOWERCASE == "abcdefghijklmnopqrstuvwxyz"
DIGITS    == "0123456789"

\* The i-th character of s, a string of length 1.
Char(s, i) == SubSeq(s, i, i)

UpperChars == {Char(UPPERCASE, i) : i \in 1..Len(UPPERCASE)}
LowerChars == {Char(LOWERCASE, i) : i \in 1..Len(LOWERCASE)}
DigitChars == {Char(DIGITS, i) : i \in 1..Len(DIGITS)}
\* \w of the re module, for the ASCII texts of the model.
WordChars == UpperChars \cup LowerChars \cup DigitChars \cup {"_"}
\* \s of the re module.
SpaceChars == {" ", "\n", "\t"}

IsUpper(c) == c \in UpperChars
IsCased(c) == c \in UpperChars \/ c \in LowerChars
IsWordChar(c) == c \in WordChars
IsSpace(c) == c \in SpaceChars

\* The lower-case and the upper-case form of each letter.
ToLower ==
    [c \in UpperChars |-> Char(LOWERCASE, CHOOSE i \in 1..26 : Char(UPPERCASE, i) = c)]
ToUpper ==
    [c \in LowerChars |-> Char(UPPERCASE, CHOOSE i \in 1..26 : Char(LOWERCASE, i) = c)]

LowerChar(c) == IF c \in UpperChars THEN ToLower[c] ELSE c
UpperChar(c) == IF c \in LowerChars THEN ToUpper[c] ELSE c

\* The least element of a non-empty set of integers.
Min(S) == CHOOSE x \in S : \A y \in S : x <= y

\* name = x, then the statements Op that read name: x is evaluated once.
With(x, Op(_)) == Op(x)

RECURSIVE LowerRange(_, _, _)
\* The characters lo..hi of s, lower-cased.
LowerRange(s, lo, hi) ==
    IF lo > hi THEN ""
    ELSE IF lo = hi THEN LowerChar(Char(s, lo))
    ELSE LET mid == (lo + hi) \div 2
         IN  LowerRange(s, lo, mid) \o LowerRange(s, mid + 1, hi)

\* str.lower()
Lower(s) == LowerRange(s, 1, Len(s))

RECURSIVE TitleRange(_, _, _)
\* The characters lo..hi of s.title().
TitleRange(s, lo, hi) ==
    IF lo > hi THEN ""
    ELSE IF lo = hi
    THEN (IF lo = 1 \/ ~IsCased(Char(s, lo - 1))
          THEN UpperChar(Char(s, lo))
          ELSE LowerChar(Char(s, lo)))
    ELSE LET mid == (lo + hi) \div 2
         IN  TitleRange(s, lo, mid) \o TitleRange(s, mid + 1, hi)

\* str.title(): a cased character is upper-cased after an uncased one (or at
\* the start) and lower-cased after a cased one.
Title(s) == TitleRange(s, 1, Len(s))

\* `sub in s` for two strings.
Contains(s, sub) ==
    \E i \in 1..(Len(s) - Len(sub) + 1) : SubSeq(s, i, i + Len(sub) - 1) = sub

\* Values that are not a str: a number such as 12345, whose str methods raise
\* AttributeError, and a bytes value such as b"Python", which has strip() and
\* lower() but raises TypeError on `"python" in value`.
NonStr == "<non-str>"
Bytes == "<bytes>"
IsStr(x) == x # NonStr /\ x # Bytes

\* `not x` for a str, the number 12345 or a non-empty bytes value.
Falsy(x) == x = ""

\* s.strip() is empty.
IsBlank(s) == \A i \in 1..Len(s) : IsSpace(Char(s, i))

-----------------------------------------------------------------------------
(* Exceptions *)

Raised == [exc |-> TRUE]
Ret(v) == [exc |-> FALSE, val |-> v]

-----------------------------------------------------------------------------
(* Sequences *)

Range(s) == {s[i] : i \in 1..Len(s)}
\* s[:n]
Take(s, n) == SubSeq(s, 1, IF Len(s) < n THEN Len(s) ELSE n)
\* s[a:b] with 0 <= a <= b
Slice(s, a, b) ==
    SubSeq(s, (IF a > Len(s) THEN Len(s) ELSE a) + 1, IF Len(s) < b THEN Len(s) ELSE b)
IsPrefix(p, s) == Len(p) <= Len(s) /\ SubSeq(s, 1, Len(p)) = p
Map(s, Op(_)) == [i \in 1..Len(s) |-> Op(s[i])]

-----------------------------------------------------------------------------
(* float arithmetic, exact: a number is [n |-> numerator, d |-> denominator] *)
(* in lowest terms                                                         *)

RECURSIVE GCD(_, _)
GCD(a, b) == IF b = 0 THEN a ELSE GCD(b, a % b)
Abs(x) == IF x < 0 THEN 0 - x ELSE x

\* n/d for d > 0.
Rat(n, d) ==
    LET g == GCD(Abs(n), d)
    IN  [n |-> n \div g, d |-> d \div g]
RInt(k) == Rat(k, 1)
RAdd(a, b) == Rat(a.n * b.d + b.n * a.d, a.d * b.d)
RMul(a, b) == Rat(a.n * b.n, a.d * b.d)
REq(a, b) == a.n * b.d = b.n * a.d
RLt(a, b) == a.n * b.d < b.n * a.d
RLe(a, b) == a.n * b.d <= b.n * a.d
\* Python's min(a, b) and max(a, b): the first argument unless the second is
\* strictly smaller (larger).
RMin(a, b) == IF RLt(b, a) THEN b ELSE a
RMax(a, b) == IF RLt(a, b) THEN b ELSE a

\* floor(a.n / a.d) for any sign, a.d > 0 (\div of TLA+ rounds down).
RFloor(a) == a.n \div a.d

\* round(x, 2) as a number of hundredths, ties to even.
RoundHundredths(x) ==
    LET y == Rat(x.n * 100, x.d)
        q == RFloor(y)
        twiceRem == 2 * (y.n - q * y.d)
    IN  IF twiceRem < y.d THEN q
        ELSE IF twiceRem > y.d THEN q + 1
        ELSE IF q % 2 = 0 THEN q ELSE q + 1

\* round(x, 2)
Round2(x) == Rat(RoundHundredths(x), 100)

-----------------------------------------------------------------------------
(* skill_extractor.py: the skill catalog and the resume side *)

\* An excerpt of TECH_SKILLS_DB, in the order of the source: the entries that
\* occur in the texts of the model, with the entries that are substrings or
\* superstrings of them, and some of each category that do not occur.
TECH_SKILLS_DB ==
    << "python", "java", "javascript", "c++", "go", "r", "sql", "react",
       "node.js", "express",
       "mysql", "sql server",
       "aws", "docker", "kubernetes",
       "machine learning", "nlp",
       "git", "github", "docker",
       "agile", "rest api" >>

\* dict.get(key, [])
Get(dict, key) == IF key \in DOMAIN dict THEN dict[key] ELSE << >>

\* The skills of the resume found with a catalog that also holds the common
\* skills communication, problem solving and teamwork.
extract_skills_from_resume_with_common(resume_text) ==
    IF Falsy(resume_text) THEN Ret({})
    ELSE IF ~IsStr(resume_text) THEN Raised
    ELSE With(Lower(resume_text), LAMBDA text_lower :
           With(TECH_SKILLS_DB \o <<"communication", "problem solving", "teamwork">>,
                LAMBDA catalog :
                  Ret({Title(catalog[i]) : i \in
                         {j \in 1..Len(catalog) :
                             Contains(text_lower, Lower(catalog[j]))}})))

\* extract_skills_from_resume: the set of title-cased catalog skills that
\* occur in the lower-cased text.  Raises when resume_text is not a str.
extract_skills_from_resume(resume_text) ==
    IF Falsy(resume_text) THEN Ret({})
    ELSE IF ~IsStr(resume_text) THEN Raised
    ELSE With(Lower(resume_text), LAMBDA text_lower :
           Ret({Title(TECH_SKILLS_DB[i]) : i \in
                  {j \in 1..Len(TECH_SKILLS_DB) :
                      Contains(text_lower, Lower(TECH_SKILLS_DB[j]))}}))

\* [x for x in xs if x in ys] and [x for x in xs if x not in ys]
Matching(xs, ys) == SelectSeq(xs, LAMBDA x : x \in ys)
NotMatching(xs, ys) == SelectSeq(xs, LAMBDA x : x \notin ys)

\* Coverage with an integer division.
Coverage_floordiv(matches, required) ==
    IF Len(required) # 0 THEN RInt(Len(matches) \div Len(required)) ELSE RInt(0)

\* len(matches) / len(required) if required else 0
Coverage(matches, required) ==
    IF Len(required) # 0 THEN Rat(Len(matches), Len(required)) ELSE RInt(0)

\* calculate_skill_match.  Raises when an entry of a requirement list is not
\* a str (skill.lower()).
calculate_skill_match(resume_skills, jd_skills) ==
    LET mh == Get(jd_skills, "must_have")
        gh == Get(jd_skills, "good_to_have")
    IN  IF \E i \in 1..Len(mh) : ~IsStr(mh[i]) THEN Raised
        ELSE IF \E i \in 1..Len(gh) : ~IsStr(gh[i]) THEN Raised
        ELSE
        LET must_have == Map(mh, Lower)
            good_to_have == Map(gh, Lower)
            resume_skills_lower == {Lower(s) : s \in resume_skills}
            must_have_matches == Matching(must_have, resume_skills_lower)
            good_to_have_matches == Matching(good_to_have, resume_skills_lower)
        IN  Ret([must_have_matches |-> must_have_matches,
                 good_to_have_matches |-> good_to_have_matches,
                 missing_must_have |-> NotMatching(must_have, resume_skills_lower),
                 missing_good_to_have |-> NotMatching(good_to_have, resume_skills_lower),
                 must_have_score |-> Coverage(must_have_matches, must_have),
                 good_to_have_score |-> Coverage(good_to_have_matches, good_to_have)])

-----------------------------------------------------------------------------
(* The regular expressions of skill_extractor.py *)

\* \b between the characters i - 1 and i of s: exactly one of them is a \w.
IsBoundary(s, i) ==
    LET before == i > 1 /\ IsWordChar(Char(s, i - 1))
        after == i <= Len(s) /\ IsWordChar(Char(s, i))
    IN  before # after

\* The character classes of the expressions: [a-z], \s, \d, \w, [.!?] and
\* [^.!?].
InClass(c, class) ==
    CASE class = "[a-z]" -> c \in LowerChars
      [] class = "\\s" -> c \in SpaceChars
      [] class = "\\d" -> c \in DigitChars
      [] class = "\\w" -> c \in WordChars
      [] class = "[.!?]" -> c \in {".", "!", "?"}
      [] class = "[^.!?]" -> c \notin {".", "!", "?"}

\* The last index of the longest run of characters of a class that starts
\* at i; i - 1 when there is none.
RunEnd(s, i, class) ==
    Min({j \in i..Len(s) : ~InClass(Char(s, j), class)}
        \cup {IF i > Len(s) THEN i ELSE Len(s) + 1}) - 1

RECURSIVE SplitFrom(_, _)
SplitFrom(s, i) ==
    With(RunEnd(s, i, "[^.!?]"), LAMBDA e :
      IF e = Len(s) THEN <<SubSeq(s, i, e)>>
      ELSE <<SubSeq(s, i, e)>> \o SplitFrom(s, RunEnd(s, e + 1, "[.!?]") + 1))

\* re.split(r'[.!?]+', s)
SplitSentences(s) == SplitFrom(s, 1)

\* An excerpt of tech_patterns: for each pattern \b(?:a|b|...)\b the
\* alternatives of the model, in the order of the source; node\.?js is the
\* two alternatives node.js and nodejs.
tech_patterns ==
    << <<"react", "node.js", "nodejs", "express">>,
       <<"aws", "docker", "kubernetes", "git", "github">>,
       <<"sql", "mysql">>,
       <<"python", "java", "javascript", "c++", "go">>,
       <<"machine learning", "ml", "ai", "nlp">>,
       <<"agile", "api", "rest">>,
       <<"sql server">>,
       <<"linux", "bash">> >>

\* The alternatives of a pattern that match s at i, \b on both sides.
AltsAt(s, i, alts) ==
    {k \in 1..Len(alts) :
        /\ IsBoundary(s, i)
        /\ i + Len(alts[k]) - 1 <= Len(s)
        /\ SubSeq(s, i, i + Len(alts[k]) - 1) = alts[k]
        /\ IsBoundary(s, i + Len(alts[k]))}

RECURSIVE FindAlts(_, _, _)
\* re.findall of one pattern from position pos on: the leftmost match, the
\* first alternative that matches there, then on behind it.
FindAlts(s, pos, alts) ==
    With({i \in pos..Len(s) : AltsAt(s, i, alts) # {}}, LAMBDA starts :
      IF starts = {} THEN << >>
      ELSE With(Min(starts), LAMBDA i :
             With(alts[Min(AltsAt(s, i, alts))], LAMBDA alt :
               <<alt>> \o FindAlts(s, i + Len(alt), alts))))

\* The end of [A-Z][a-z]+ at i, taking every lower-case letter; 0 for no
\* match.
CapWordEnd(s, i) ==
    With(RunEnd(s, i + 1, "[a-z]"), LAMBDA e :
      IF i <= Len(s) /\ IsUpper(Char(s, i)) /\ e > i THEN e ELSE 0)

RECURSIVE CapChainEnd(_, _)
\* The end of (?:\s+[A-Z][a-z]+)*\b behind a word that ends at e: as many
\* further words as possible, given back one by one until \b holds; 0 when
\* it never holds.
CapChainEnd(s, e) ==
    With(RunEnd(s, e + 1, "\\s") + 1, LAMBDA p :
      With(IF p > e + 1 THEN CapWordEnd(s, p) ELSE 0, LAMBDA word :
        With(IF word # 0 THEN CapChainEnd(s, word) ELSE 0, LAMBDA next :
          IF next # 0 THEN next
          ELSE IF IsBoundary(s, e + 1) THEN e ELSE 0)))

\* The end of a match of \b[A-Z][a-z]+(?:\s+[A-Z][a-z]+)*\b at i; 0 for none.
CapMatchEnd(s, i) ==
    With(IF IsBoundary(s, i) THEN CapWordEnd(s, i) ELSE 0, LAMBDA word :
      IF word # 0 THEN CapChainEnd(s, word) ELSE 0)

RECURSIVE FindCapitalized(_, _)
\* re.findall(r'\b[A-Z][a-z]+(?:\s+[A-Z][a-z]+)*\b', s) from position pos on.
FindCapitalized(s, pos) ==
    With({i \in pos..Len(s) : CapMatchEnd(s, i) # 0}, LAMBDA starts :
      IF starts = {} THEN << >>
      ELSE With(Min(starts), LAMBDA i :
             With(CapMatchEnd(s, i), LAMBDA e :
               <<SubSeq(s, i, e)>> \o FindCapitalized(s, e + 1))))

RECURSIVE DotGroupsEnd(_, _)
\* The end of (?:\.\d+)*\b behind digits that end at e; 0 when \b never
\* holds.
DotGroupsEnd(s, e) ==
    With(RunEnd(s, e + 2, "\\d"), LAMBDA d :
      With(IF e + 1 <= Len(s) /\ Char(s, e + 1) = "." /\ d > e + 1
           THEN DotGroupsEnd(s, d) ELSE 0, LAMBDA next :
        IF next # 0 THEN next
        ELSE IF IsBoundary(s, e + 1) THEN e ELSE 0))

\* The end of \s*\d+(?:\.\d+)*\b behind a \w+ that ends at w; 0 for none.
\* \d+ gives nothing back: a shorter run of digits is followed by a digit.
VersionTailEnd(s, w) ==
    With(RunEnd(s, w + 1, "\\s") + 1, LAMBDA q :
      With(RunEnd(s, q, "\\d"), LAMBDA d :
        IF d >= q THEN DotGroupsEnd(s, d) ELSE 0))

\* The end of a match of \b\w+\s*\d+(?:\.\d+)*\b at i; 0 for none.  \w+
\* takes the whole run and gives back one character at a time.
VersionMatchEnd(s, i) ==
    IF ~(IsBoundary(s, i) /\ i <= Len(s) /\ IsWordChar(Char(s, i))) THEN 0
    ELSE With({w \in i..RunEnd(s, i, "\\w") : VersionTailEnd(s, w) # 0}, LAMBDA ws :
           IF ws = {} THEN 0
           ELSE VersionTailEnd(s, CHOOSE w \in ws : \A v \in ws : v <= w))

RECURSIVE FindVersions(_, _)
\* re.findall(r'\b\w+\s*\d+(?:\.\d+)*\b', s) from position pos on.
FindVersions(s, pos) ==
    With({i \in pos..Len(s) : VersionMatchEnd(s, i) # 0}, LAMBDA starts :
      IF starts = {} THEN << >>
      ELSE With(Min(starts), LAMBDA i :
             With(VersionMatchEnd(s, i), LAMBDA e :
               <<SubSeq(s, i, e)>> \o FindVersions(s, e + 1))))

common_words ==
    {"the", "and", "or", "but", "in", "on", "at", "to", "for", "of", "with",
     "by", "a", "an"}

\* extract_additional_keywords; the order of list(set(keywords)) is not read
\* by its one caller, which makes a set of it again.
extract_additional_keywords(jd_text) ==
    With(Lower(jd_text), LAMBDA text_lower :
      With(UNION {{Title(m) : m \in Range(FindAlts(text_lower, 1, tech_patterns[k]))} :
                     k \in 1..Len(tech_patterns)}
             \cup Range(FindCapitalized(jd_text, 1))
             \cup Range(FindVersions(jd_text, 1)), LAMBDA keywords :
        {kw \in keywords : Lower(kw) \notin common_words /\ Len(kw) > 2}))

-----------------------------------------------------------------------------
(* skill_extractor.py: the keyword path *)

RECURSIVE SetToSeq(_)
\* The elements of a finite set in one fixed order.
SetToSeq(S) ==
    IF S = {} THEN << >>
    ELSE LET x == CHOOSE x \in S : TRUE IN <<x>> \o SetToSeq(S \ {x})

Reverse(s) == [i \in 1..Len(s) |-> s[Len(s) + 1 - i]]
Rotate(s, k) == [i \in 1..Len(s) |-> s[((i - 1 + k) % Len(s)) + 1]]

\* list(set(..)): the order of the list depends on the hash seed of the
\* process.  A seed of the model picks a rotation of the fixed order or of
\* its reverse; these are all orders of a set of up to three elements.
MaxRotation == 2
HashSeeds == [rotation : 0..MaxRotation, reversed : BOOLEAN]
ListOfSet(S, seed) ==
    IF S = {} THEN << >>
    ELSE With(SetToSeq(S), LAMBDA s :
           Rotate(IF seed.reversed THEN Reverse(s) ELSE s, seed.rotation))

must_have_keywords ==
    <<"required", "must have", "essential", "mandatory", "necessary",
      "prerequisite", "minimum", "at least", "should have", "need",
      "critical", "important", "key", "core", "fundamental">>

good_to_have_keywords ==
    <<"preferred", "nice to have", "bonus", "advantage", "plus",
      "desirable", "beneficial", "helpful", "would be great",
      "optional", "additional", "extra", "welcome">>

\* any(keyword in sentence_lower for keyword in keywords)
AnyIn(keywords, sentence_lower) ==
    \E k \in 1..Len(keywords) : Contains(sentence_lower, keywords[k])

\* An append without the test `skill not in` the list.
AppendNew_unchecked(l, xs) == l \o xs

RECURSIVE AppendNew(_, _)
\* for x in xs: if x not in l: l.append(x)
AppendNew(l, xs) ==
    IF xs = << >> THEN l
    ELSE AppendNew(IF xs[1] \in Range(l) THEN l ELSE Append(l, xs[1]), Tail(xs))

\* For each sentence of re.split(r'[.!?]+', jd_text): whether it holds a
\* must-have cue, whether it holds a good-to-have cue, and the skills of
\* `mentioned` it holds (skill.lower() in sentence_lower).
SentenceCues(jd_text, mentioned) ==
    With(SplitSentences(jd_text), LAMBDA sentences :
      [k \in 1..Len(sentences) |->
         With(Lower(sentences[k]), LAMBDA sentence_lower :
           [is_must_have |-> AnyIn(must_have_keywords, sentence_lower),
            is_good_to_have |-> AnyIn(good_to_have_keywords, sentence_lower),
            found |-> {skill \in mentioned :
                          Contains(sentence_lower, Lower(skill))}])])

RECURSIVE ClassifySentences(_, _, _, _)
\* The loop over the sentences from the k-th on: a skill found in a sentence
\* with a must-have cue and no good-to-have cue joins must_have, one found in
\* a sentence with a good-to-have cue joins good_to_have.
ClassifySentences(cues, k, mentioned_skills, lists) ==
    IF k > Len(cues) THEN lists
    ELSE With(cues[k], LAMBDA cue :
           With(SelectSeq(mentioned_skills, LAMBDA skill : skill \in cue.found), LAMBDA found :
             ClassifySentences(cues, k + 1, mentioned_skills,
                 IF cue.is_must_have /\ ~cue.is_good_to_have
                 THEN [lists EXCEPT !.must_have = AppendNew(@, found)]
                 ELSE IF cue.is_good_to_have
                 THEN [lists EXCEPT !.good_to_have = AppendNew(@, found)]
                 ELSE lists)))

common_skills == <<"Communication", "Problem Solving", "Teamwork">>

\* A padding that appends every placeholder.
PadCommon_all(must_have, k) == must_have \o common_skills

RECURSIVE PadCommon(_, _)
\* for skill in common_skills[k:]: append it while must_have has fewer than
\* 5 entries and lacks it.
PadCommon(must_have, k) ==
    IF k > Len(common_skills) THEN must_have
    ELSE PadCommon(IF common_skills[k] \notin Range(must_have) /\ Len(must_have) < 5
                   THEN Append(must_have, common_skills[k]) ELSE must_have,
                   k + 1)

\* The set that mentioned_skills holds before list(set(..)): the catalog
\* entries found in the text, title-cased, and the additional keywords.
mentioned_set(jd_text) ==
    With(Lower(jd_text), LAMBDA text_lower :
      {Title(TECH_SKILLS_DB[i]) : i \in
          {j \in 1..Len(TECH_SKILLS_DB) :
              Contains(text_lower, Lower(TECH_SKILLS_DB[j]))}}
      \cup extract_additional_keywords(jd_text))

\* The keyword path without the final must_have[:5] and good_to_have[:8].
keywords_from_untruncated(cues, mentioned_skills) ==
    With(ClassifySentences(cues, 1, mentioned_skills,
                           [must_have |-> << >>, good_to_have |-> << >>]), LAMBDA classified :
      IF classified.must_have = << >> /\ classified.good_to_have = << >>
      THEN [must_have |-> mentioned_skills, good_to_have |-> << >>]
      ELSE classified)

\* extract_skills_with_keywords from `mentioned_skills = list(set(..))` on,
\* given the cues and skills of the sentences.
keywords_from(cues, mentioned_skills) ==
    With(ClassifySentences(cues, 1, mentioned_skills,
                           [must_have |-> << >>, good_to_have |-> << >>]), LAMBDA classified :
      With(classified.must_have = << >> /\ classified.good_to_have = << >>, LAMBDA nothing :
        With(IF nothing THEN Take(mentioned_skills, 5) ELSE classified.must_have,
             LAMBDA must_have :
          With(IF nothing THEN Slice(mentioned_skills, 5, 13) ELSE classified.good_to_have,
               LAMBDA good_to_have :
            With(IF Len(must_have) < 3 THEN PadCommon(must_have, 1) ELSE must_have,
                 LAMBDA padded :
              [must_have |-> Take(padded, 5), good_to_have |-> Take(good_to_have, 8)])))))

\* The locals of extract_skills_with_keywords after its loop over the
\* sentences, for a str under each hash seed: mentioned_skills, the cues and
\* skills of the sentences, and the two lists.
locals_by_seed(jd_text) ==
    With(mentioned_set(jd_text), LAMBDA mentioned :
      With(SentenceCues(jd_text, mentioned), LAMBDA cues :
        [seed \in HashSeeds |->
           With(ListOfSet(mentioned, seed), LAMBDA mentioned_skills :
             With(ClassifySentences(cues, 1, mentioned_skills,
                                    [must_have |-> << >>, good_to_have |-> << >>]),
                  LAMBDA classified :
               [mentioned_skills |-> mentioned_skills, cues |-> cues,
                must_have |-> classified.must_have,
                good_to_have |-> classified.good_to_have]))]))

\* What extract_skills_with_keywords returns for a str under each hash seed.
keywords_by_seed(jd_text) ==
    With(mentioned_set(jd_text), LAMBDA mentioned :
      With(SentenceCues(jd_text, mentioned), LAMBDA cues :
        {<<seed, keywords_from(cues, ListOfSet(mentioned, seed))>> :
            seed \in HashSeeds}))

\* extract_skills_with_keywords under a hash seed.  A jd_text that is no str
\* raises (AttributeError or TypeError).
extract_skills_with_keywords(jd_text, seed) ==
    IF ~IsStr(jd_text) THEN Raised
    ELSE Ret((CHOOSE p \in keywords_by_seed(jd_text) : p[1] = seed)[2])

-----------------------------------------------------------------------------
(* skill_extractor.py: the AI path and extract_skills_from_jd; *)
(* grok_client.py: grok_generate                                          *)

\* A value parsed from JSON, or held by a returned dict: a list, a str, a
\* dict, or null (a number behaves like null here: slicing it raises).
PyList(items) == [type |-> "list", items |-> items]
PyStr(text) == [type |-> "str", text |-> text]
PyDict(fields) == [type |-> "dict", fields |-> fields]
PyNull == [type |-> "null"]

\* len(v) of a list or a str.
Entries(v) == IF v.type = "list" THEN Len(v.items) ELSE Len(v.text)
\* bool(v)
Truthy(v) ==
    CASE v.type = "list" -> v.items # << >>
      [] v.type = "str" -> v.text # ""
      [] v.type = "dict" -> DOMAIN v.fields # {}
      [] OTHER -> FALSE
\* v[:n]: a list or str is cut, anything else raises.
PySlice(v, n) ==
    CASE v.type = "list" -> Ret(PyList(Take(v.items, n)))
      [] v.type = "str" -> Ret(PyStr(Take(v.text, n)))
      [] OTHER -> Raised

\* The "text" of a response: none (None or ""), a text that is no JSON, or a
\* JSON text, which stands here as the value it denotes.
TextNone == [kind |-> "none"]
TextNotJson == [kind |-> "not_json"]
TextJson(value) == [kind |-> "json", value |-> value]
\* A text that is no JSON, with its characters.
TextPlain(str) == [kind |-> "not_json", str |-> str]
\* The text of the mock response of grok_generate.
MockText == TextPlain("Mock response: Please configure GROK_API_KEY in .env file")

\* json.loads
json_loads(text) == IF text.kind = "json" THEN Ret(text.value) ELSE Raised

\* What make_api_request gave for a generation endpoint when ok.
GenOk(text) == [kind |-> "returned", ok |-> TRUE, text |-> text]

RECURSIVE grok_generate_loop(_, _)
\* The endpoint loop of grok_generate: the first response that is ok is
\* returned; a request that raised or was not ok moves on.
grok_generate_loop(responses, k) ==
    IF k > Len(responses) THEN [ok |-> FALSE, text |-> TextNone]
    ELSE IF responses[k].kind = "raised" THEN grok_generate_loop(responses, k + 1)
    ELSE IF responses[k].ok THEN [ok |-> TRUE, text |-> responses[k].text]
    ELSE grok_generate_loop(responses, k + 1)

\* grok_generate: the mock response without a valid key, else the loop over
\* the three endpoints.
grok_generate(key_valid, responses) ==
    IF ~key_valid THEN [ok |-> TRUE, text |-> MockText]
    ELSE grok_generate_loop(responses, 1)

EmptySkills == [must_have |-> PyList(<< >>), good_to_have |-> PyList(<< >>)]

\* skills_data.get(key, [])
GetOrEmptyList(fields, key) ==
    IF key \in DOMAIN fields THEN fields[key] ELSE PyList(<< >>)

\* extract_skills_with_ai.  `exc` tells whether an exception was raised in it
\* (a failed import, JSONDecodeError, a value that cannot be sliced); it
\* catches them all.
extract_skills_with_ai(key_valid, env) ==
    IF ~env.grok_import_ok THEN [val |-> EmptySkills, exc |-> TRUE]
    ELSE LET response == grok_generate(key_valid, env.responses)
         IN  IF ~(response.ok /\ response.text.kind # "none")
             THEN [val |-> EmptySkills, exc |-> FALSE]
             ELSE LET skills_data == json_loads(response.text)
                  IN  IF skills_data.exc THEN [val |-> EmptySkills, exc |-> TRUE]
                      ELSE IF ~(skills_data.val.type = "dict"
                                /\ "must_have" \in DOMAIN skills_data.val.fields)
                      THEN [val |-> EmptySkills, exc |-> FALSE]
                      ELSE LET must_have ==
                                   PySlice(GetOrEmptyList(skills_data.val.fields,
                                                          "must_have"), 5)
                               good_to_have ==
                                   PySlice(GetOrEmptyList(skills_data.val.fields,
                                                          "good_to_have"), 8)
                           IN  IF must_have.exc \/ good_to_have.exc
                               THEN [val |-> EmptySkills, exc |-> TRUE]
                               ELSE [val |-> [must_have |-> must_have.val,
                                              good_to_have |-> good_to_have.val],
                                     exc |-> FALSE]

\* The dict that extract_skills_with_keywords returned.
KeywordSkills(r) ==
    [must_have |-> PyList(r.must_have), good_to_have |-> PyList(r.good_to_have)]

\* extract_skills_from_jd, given what extract_skills_with_ai returns (`ai`)
\* and what extract_skills_with_keywords does for this text (`keywords`).
\* `raised`: the call raised to its caller; `exc`: an exception was raised
\* during the call; `path`: where the result came from.  jd_text.strip() is
\* outside the try block; the except branch runs extract_skills_with_keywords
\* again, which raises again.
extract_skills_from_jd(jd_text, use_ai, ai, keywords) ==
    IF Falsy(jd_text)
    THEN [raised |-> FALSE, val |-> EmptySkills, exc |-> FALSE, path |-> "empty"]
    ELSE IF jd_text = NonStr
    THEN [raised |-> TRUE, exc |-> TRUE, path |-> "guard"]
    ELSE IF IsStr(jd_text) /\ IsBlank(jd_text)
    THEN [raised |-> FALSE, val |-> EmptySkills, exc |-> FALSE, path |-> "empty"]
    ELSE IF use_ai /\ Truthy(ai.val.must_have)
    THEN [raised |-> FALSE, val |-> ai.val, exc |-> ai.exc, path |-> "ai"]
    ELSE IF keywords.exc
    THEN [raised |-> TRUE, exc |-> TRUE, path |-> "except"]
    ELSE [raised |-> FALSE, val |-> KeywordSkills(keywords.val),
          exc |-> use_ai /\ ai.exc, path |-> "keywords"]

-----------------------------------------------------------------------------
(* scoring.py: hard match, missing skills, verdict *)

\* A hard score that leaves the must-have skills out.
must_have_weight_none == RInt(0)

must_have_weight == Rat(7, 10)
good_to_have_weight == Rat(3, 10)

\* The body of the try block of calculate_hard_match_score.
hard_match_body(resume_text, jd_skills) ==
    LET resume_skills == extract_skills_from_resume(resume_text)
    IN  IF resume_skills.exc THEN Raised
        ELSE LET match_stats == calculate_skill_match(resume_skills.val, jd_skills)
             IN  IF match_stats.exc THEN Raised
                 ELSE LET must_have_score ==
                              RMul(match_stats.val.must_have_score, RInt(100))
                          good_to_have_score ==
                              RMul(match_stats.val.good_to_have_score, RInt(100))
                          hard_score ==
                              RAdd(RMul(must_have_weight, must_have_score),
                                   RMul(good_to_have_weight, good_to_have_score))
                      IN  Ret(RMin(RInt(100), RMax(RInt(0), hard_score)))

\* calculate_hard_match_score: 0.0 for an empty text or requirement, and 0.0
\* when the body raises.  `val` is what it returns, `exc` whether its except
\* branch ran.
calculate_hard_match_score(resume_text, jd_skills) ==
    IF Falsy(resume_text) \/ DOMAIN jd_skills = {}
    THEN [val |-> RInt(0), exc |-> FALSE]
    ELSE LET r == hard_match_body(resume_text, jd_skills)
         IN  IF r.exc THEN [val |-> RInt(0), exc |-> TRUE]
             ELSE [val |-> r.val, exc |-> FALSE]

\* The body of find_missing_skills without the final [:5].
missing_skills_body_untruncated(resume_text, jd_skills) ==
    LET resume_skills == extract_skills_from_resume(resume_text)
    IN  IF resume_skills.exc THEN Raised
        ELSE LET match_stats == calculate_skill_match(resume_skills.val, jd_skills)
             IN  IF match_stats.exc THEN Raised
                 ELSE LET missing_must == match_stats.val.missing_must_have
                      IN  Ret(IF Len(missing_must) < 3
                              THEN missing_must
                                   \o Take(match_stats.val.missing_good_to_have, 3)
                              ELSE missing_must)

\* A body that appends the good-to-have gaps whatever the number of
\* must-have gaps.
missing_skills_body_always_padded(resume_text, jd_skills) ==
    LET resume_skills == extract_skills_from_resume(resume_text)
    IN  IF resume_skills.exc THEN Raised
        ELSE LET match_stats == calculate_skill_match(resume_skills.val, jd_skills)
             IN  IF match_stats.exc THEN Raised
                 ELSE Ret(Take(match_stats.val.missing_must_have
                               \o Take(match_stats.val.missing_good_to_have, 3), 5))

\* The body of the try block of find_missing_skills.
missing_skills_body(resume_text, jd_skills) ==
    LET resume_skills == extract_skills_from_resume(resume_text)
    IN  IF resume_skills.exc THEN Raised
        ELSE LET match_stats == calculate_skill_match(resume_skills.val, jd_skills)
             IN  IF match_stats.exc THEN Raised
                 ELSE LET missing_must == match_stats.val.missing_must_have
                          missing_skills ==
                              IF Len(missing_must) < 3
                              THEN missing_must
                                   \o Take(match_stats.val.missing_good_to_have, 3)
                              ELSE missing_must
                      IN  Ret(Take(missing_skills, 5))

\* find_missing_skills: [] for an empty text or requirement, and [] when the
\* body raises.  `val` is what it returns, `exc` whether its except branch ran.
find_missing_skills(resume_text, jd_skills) ==
    IF Falsy(resume_text) \/ DOMAIN jd_skills = {}
    THEN [val |-> << >>, exc |-> FALSE]
    ELSE LET r == missing_skills_body(resume_text, jd_skills)
         IN  IF r.exc THEN [val |-> << >>, exc |-> TRUE]
             ELSE [val |-> r.val, exc |-> FALSE]

\* determine_verdict with strict comparisons.
determine_verdict_strict(final_score) ==
    IF RLt(RInt(75), final_score) THEN "High"
    ELSE IF RLt(RInt(45), final_score) THEN "Medium"
    ELSE "Low"

\* determine_verdict
determine_verdict(final_score) ==
    IF RLe(RInt(75), final_score) THEN "High"
    ELSE IF RLe(RInt(45), final_score) THEN "Medium"
    ELSE "Low"

-----------------------------------------------------------------------------
(* embeddings.py and grok_client.py: the embedding tiers *)

\* A vector is a sequence of integers, in units of 0.1.

\* The dimension of the mock vectors of grok_embeddings, of the zero vectors
\* of get_embeddings and of the all-MiniLM-L6-v2 model.
EMBED_DIM == 384
\* n_components of the TruncatedSVD and the length of the random vectors.
TFIDF_DIM == 100

ConstVec(dim, v) == [i \in 1..dim |-> v]
\* [vec for _ in texts]
Repeat(texts, vec) == [i \in 1..Len(texts) |-> vec]

\* What make_api_request gave for one endpoint: it raised, or returned a
\* dict with "ok" and, when ok, the parsed JSON body "raw".
ApiRaised == [kind |-> "raised"]
ApiNotOk == [kind |-> "returned", ok |-> FALSE]
ApiOk(raw) == [kind |-> "returned", ok |-> TRUE, raw |-> raw]

\* A JSON body of the embeddings endpoints: without "data", with a "data"
\* that is no list (iterating it raises TypeError), or with a list of items
\* each holding an "embedding" or not.
RawNoData == [has_data |-> FALSE]
RawBadData == [has_data |-> TRUE, is_list |-> FALSE]
RawData(items) == [has_data |-> TRUE, is_list |-> TRUE, data |-> items]
Item(vec) == [has_embedding |-> TRUE, embedding |-> vec]
ItemEmpty == [has_embedding |-> FALSE]

\* item.get("embedding", [])
ItemEmbedding(item) == IF item.has_embedding THEN item.embedding ELSE << >>

RECURSIVE grok_embeddings_loop(_, _)
\* The endpoint loop of grok_embeddings: the first endpoint whose request
\* returned ok with a "data" list decides; a request that raised, was not ok
\* or had no usable "data" moves on to the next endpoint.
grok_embeddings_loop(responses, k) ==
    IF k > Len(responses) THEN [ok |-> FALSE]
    ELSE LET response == responses[k]
         IN  IF response.kind = "raised" THEN grok_embeddings_loop(responses, k + 1)
             ELSE IF ~response.ok THEN grok_embeddings_loop(responses, k + 1)
             ELSE IF ~response.raw.has_data THEN grok_embeddings_loop(responses, k + 1)
             ELSE IF ~response.raw.is_list THEN grok_embeddings_loop(responses, k + 1)
             ELSE [ok |-> TRUE,
                   embeddings |-> Map(response.raw.data, ItemEmbedding)]

\* grok_embeddings that reports a failure when no key is configured.
grok_embeddings_no_mock(texts, key_valid, responses) ==
    IF ~key_valid
    THEN [ok |-> FALSE]
    ELSE grok_embeddings_loop(responses, 1)

\* grok_embeddings: without a valid key the mock vectors, else the endpoint
\* loop over the two endpoints.
grok_embeddings(texts, key_valid, responses) ==
    IF ~key_valid
    THEN [ok |-> TRUE, embeddings |-> Repeat(texts, ConstVec(EMBED_DIM, 1))]
    ELSE grok_embeddings_loop(responses, 1)

\* Each tier reports the vectors, the model cache it leaves, the number of
\* models it constructed and `tried`, the tiers attempted, in order.

\* get_tfidf_embeddings whose last resort is one random vector, whatever the
\* number of texts.
get_tfidf_embeddings_one_random(texts, cache, env) ==
    IF env.tfidf_ok
    THEN [embeddings |-> [i \in 1..Len(texts) |-> env.tfidf_vecs[i]],
          cache |-> cache, loads |-> 0, tried |-> <<"tfidf">>]
    ELSE [embeddings |-> <<env.rand_vecs[1]>>,
          cache |-> cache, loads |-> 0, tried |-> <<"tfidf", "random">>]

\* get_tfidf_embeddings: the projection of the library, or one random vector
\* per text when the library raises.
get_tfidf_embeddings(texts, cache, env) ==
    IF env.tfidf_ok
    THEN [embeddings |-> [i \in 1..Len(texts) |-> env.tfidf_vecs[i]],
          cache |-> cache, loads |-> 0, tried |-> <<"tfidf">>]
    ELSE [embeddings |-> [i \in 1..Len(texts) |-> env.rand_vecs[i]],
          cache |-> cache, loads |-> 0, tried |-> <<"tfidf", "random">>]

\* r, reached after the tiers `before` and with `loads` more constructions.
After(before, loads, r) ==
    [r EXCEPT !.tried = before \o @, !.loads = loads + @]

\* get_sentence_transformer_embeddings.  The model is constructed and cached
\* when its name is not in the cache; a failed import, construction or encode
\* falls to TF-IDF.
get_sentence_transformer_embeddings(texts, model_name, cache, env) ==
    IF ~env.st_import_ok
    THEN After(<<"local">>, 0, get_tfidf_embeddings(texts, cache, env))
    ELSE IF model_name \notin cache /\ ~env.st_load_ok
    THEN After(<<"local">>, 0, get_tfidf_embeddings(texts, cache, env))
    ELSE LET cache1 == cache \cup {model_name}
             loads == IF model_name \notin cache THEN 1 ELSE 0
         IN  IF ~env.st_encode_ok
             THEN After(<<"local">>, loads, get_tfidf_embeddings(texts, cache1, env))
             ELSE [embeddings |-> [i \in 1..Len(texts) |-> env.st_vecs[i]],
                   cache |-> cache1, loads |-> loads, tried |-> <<"local">>]

\* get_embeddings: [] for no texts; the external vectors when grok_embeddings
\* says ok; the local tiers when it does not or when grok_client cannot be
\* imported (ImportError); zero vectors when anything else is raised.
get_embeddings(texts, model_name, key_valid, cache, env) ==
    IF Len(texts) = 0
    THEN [embeddings |-> << >>, cache |-> cache, loads |-> 0, tried |-> << >>]
    ELSE IF env.grok_import = "error"
    THEN [embeddings |-> Repeat(texts, ConstVec(EMBED_DIM, 0)), cache |-> cache,
          loads |-> 0, tried |-> <<"external", "zero">>]
    ELSE LET grok_result ==
                 IF env.grok_import = "ImportError" THEN [ok |-> FALSE]
                 ELSE grok_embeddings(texts, key_valid, env.responses)
         IN  IF grok_result.ok
             THEN [embeddings |-> grok_result.embeddings, cache |-> cache,
                   loads |-> 0, tried |-> <<"external">>]
             ELSE After(<<"external">>, 0,
                        get_sentence_transformer_embeddings(texts, model_name,
                                                            cache, env))

RECURSIVE DotRange(_, _, _, _)
\* The sum of a[i] * b[i] for i in lo..hi, by halves.
DotRange(a, b, lo, hi) ==
    IF lo > hi THEN 0
    ELSE IF lo = hi THEN a[lo] * b[lo]
    ELSE LET mid == (lo + hi) \div 2
         IN  DotRange(a, b, lo, mid) + DotRange(a, b, mid + 1, hi)

\* np.dot of two vectors of the same length.
Dot(a, b) == DotRange(a, b, 1, Len(a))

\* The resolution of a similarity: a multiple of 1/SimScale.
SimScale == 100

\* |dot| / (norm1 * norm2), rounded down to a multiple of 1/SimScale, in
\* units of 1/SimScale: the largest k with (k/SimScale)^2 <= dot^2 / (n1 * n2),
\* where n1 and n2 are the squared norms.
CosineMagnitude(dot, n1, n2) ==
    LET fits(k) == k * k * (n1 * n2) <= dot * dot * (SimScale * SimScale)
    IN  CHOOSE k \in 0..(2 * SimScale) : fits(k) /\ ~fits(k + 1)

\* calculate_similarity without max(0.0, min(1.0, ..)).
calculate_similarity_unclamped(embedding1, embedding2) ==
    IF Len(embedding1) # Len(embedding2) THEN RInt(0)
    ELSE LET dot_product == Dot(embedding1, embedding2)
             n1 == Dot(embedding1, embedding1)
             n2 == Dot(embedding2, embedding2)
         IN  IF n1 = 0 \/ n2 = 0 THEN RInt(0)
             ELSE LET k == CosineMagnitude(dot_product, n1, n2)
                  IN  Rat(IF dot_product < 0 THEN 0 - k ELSE k, SimScale)

\* calculate_similarity: 0.0 when np.dot raises (different lengths) or a norm
\* is zero, else the cosine clamped to [0, 1].
calculate_similarity(embedding1, embedding2) ==
    IF Len(embedding1) # Len(embedding2) THEN RInt(0)
    ELSE LET dot_product == Dot(embedding1, embedding2)
             n1 == Dot(embedding1, embedding1)
             n2 == Dot(embedding2, embedding2)
         IN  IF n1 = 0 \/ n2 = 0 THEN RInt(0)
             ELSE LET k == CosineMagnitude(dot_product, n1, n2)
                      similarity == Rat(IF dot_product < 0 THEN 0 - k ELSE k, SimScale)
                  IN  RMax(RInt(0), RMin(RInt(1), similarity))

-----------------------------------------------------------------------------
(* What the libraries and the embedding service may do during one call of  *)
(* get_embeddings                                                          *)

\* The largest number of texts of one get_embeddings call of the model.
MaxTexts == 2
\* The largest number of items of a "data" list of the service.
MaxItems == 2

DEFAULT_MODEL == "all-MiniLM-L6-v2"
ModelNames == {DEFAULT_MODEL, "paraphrase-MiniLM-L3-v2"}

OnesVec(dim) == ConstVec(dim, 1)
HalfVec(dim) == [i \in 1..dim |-> IF 2 * i <= dim THEN 1 ELSE 0]
MixedVec(dim) == [i \in 1..dim |-> IF 2 * i <= dim THEN 0 - 1 ELSE 1]

\* Vectors of the local model, of the TF-IDF projection, of np.random.rand
\* (no negative component) and of the service (any length).
LocalVecs == {HalfVec(EMBED_DIM), MixedVec(EMBED_DIM)}
TfidfVecs == {MixedVec(TFIDF_DIM), ConstVec(TFIDF_DIM, 0)}
RandVecs == {OnesVec(TFIDF_DIM), HalfVec(TFIDF_DIM)}
ServiceVecs == {<<6, 8>>, <<0 - 10, 0>>, <<3, 4, 0>>}

\* One vector per text, for up to MaxTexts texts.
VecLists(pool) == [1..MaxTexts -> pool]
NoVecs == [i \in 1..MaxTexts |-> << >>]

ServiceItems == {Item(v) : v \in ServiceVecs} \cup {ItemEmpty}
RECURSIVE ItemLists(_)
ItemLists(n) ==
    IF n = 0 THEN {<< >>}
    ELSE ItemLists(n - 1)
         \cup {Append(l, it) : l \in {x \in ItemLists(n - 1) : Len(x) = n - 1},
                               it \in ServiceItems}

\* A request that leaves the endpoint loop going, and one that ends it.
FailedResponses == {ApiRaised, ApiNotOk, ApiOk(RawNoData), ApiOk(RawBadData)}
DecidingResponses == {ApiOk(RawData(items)) : items \in ItemLists(MaxItems)}

\* The tiers below the external one: the local model answers, or it fails in
\* one of three ways and TF-IDF answers or fails.
TfidfEnvs ==
    [tfidf_ok : {TRUE}, tfidf_vecs : VecLists(TfidfVecs), rand_vecs : {NoVecs}]
    \cup [tfidf_ok : {FALSE}, tfidf_vecs : {NoVecs}, rand_vecs : VecLists(RandVecs)]
LocalOk ==
    [st_import_ok : {TRUE}, st_load_ok : {TRUE}, st_encode_ok : {TRUE},
     st_vecs : VecLists(LocalVecs),
     tfidf_ok : {TRUE}, tfidf_vecs : {NoVecs}, rand_vecs : {NoVecs}]
LocalFailed ==
    {[st_import_ok |-> f[1], st_load_ok |-> f[2], st_encode_ok |-> FALSE,
      st_vecs |-> NoVecs,
      tfidf_ok |-> t.tfidf_ok, tfidf_vecs |-> t.tfidf_vecs, rand_vecs |-> t.rand_vecs] :
        f \in {<<FALSE, FALSE>>, <<TRUE, FALSE>>, <<TRUE, TRUE>>}, t \in TfidfEnvs}
LowerTiers == LocalOk \cup LocalFailed
\* The lower tiers of a call that does not reach them.
LowerUnused == CHOOSE l \in LocalOk : l.st_vecs = [i \in 1..MaxTexts |-> HalfVec(EMBED_DIM)]

WithUpper(lower, grok_import, responses) ==
    [grok_import |-> grok_import, responses |-> responses,
     st_import_ok |-> lower.st_import_ok, st_load_ok |-> lower.st_load_ok,
     st_encode_ok |-> lower.st_encode_ok, st_vecs |-> lower.st_vecs,
     tfidf_ok |-> lower.tfidf_ok, tfidf_vecs |-> lower.tfidf_vecs,
     rand_vecs |-> lower.rand_vecs]

\* The course of a call that is not made.
EnvUnused == WithUpper(LowerUnused, "ok", <<ApiNotOk, ApiNotOk>>)

\* Every course one call can take: importing grok_client raises something
\* other than ImportError; it raises ImportError; the first or the second
\* endpoint decides; both endpoints fail.
EmbedEnv ==
    {WithUpper(LowerUnused, "error", <<ApiNotOk, ApiNotOk>>)}
    \cup {WithUpper(l, "ImportError", <<ApiNotOk, ApiNotOk>>) : l \in LowerTiers}
    \cup {WithUpper(LowerUnused, "ok", <<r, ApiNotOk>>) : r \in DecidingResponses}
    \cup {WithUpper(LowerUnused, "ok", <<f, r>>) :
            f \in FailedResponses, r \in DecidingResponses}
    \cup {WithUpper(l, "ok", <<f1, f2>>) :
            f1 \in FailedResponses, f2 \in FailedResponses, l \in LowerTiers}

-----------------------------------------------------------------------------
(* scoring.py: soft match and calculate_relevance_score *)

\* A weight that is no number (None): multiplying by it raises TypeError.
NotANumber == [n |-> 0, d |-> 0]
IsNumber(w) == w.d # 0

\* What happens during one calculate_soft_match_score: whether
\* `from .embeddings import ...` succeeds, the courses of the two
\* get_embeddings calls, and what calculate_tfidf_similarity returns (the
\* similarity of the library times 100, or 0.0 when the library raised).
SoftEnvOf(import_ok, jd_env, resume_env, tfidf_similarity) ==
    [embeddings_import_ok |-> import_ok, jd_env |-> jd_env,
     resume_env |-> resume_env, tfidf_similarity |-> tfidf_similarity]

\* The try block of calculate_soft_match_score: the score and the model cache
\* left, or Raised (IndexError on an empty embedding list).
soft_match_body(jd_text, resume_text, key_valid, cache, env) ==
    IF ~env.embeddings_import_ok
    THEN [exc |-> FALSE, val |-> env.tfidf_similarity, cache |-> cache]
    ELSE LET jd == get_embeddings(<<jd_text>>, DEFAULT_MODEL, key_valid, cache,
                                  env.jd_env)
         IN  IF Len(jd.embeddings) = 0 THEN [exc |-> TRUE, cache |-> jd.cache]
             ELSE LET resume == get_embeddings(<<resume_text>>, DEFAULT_MODEL,
                                               key_valid, jd.cache, env.resume_env)
                  IN  IF Len(resume.embeddings) = 0
                      THEN [exc |-> TRUE, cache |-> resume.cache]
                      ELSE [exc |-> FALSE,
                            val |-> RMul(calculate_similarity(jd.embeddings[1],
                                                              resume.embeddings[1]),
                                         RInt(100)),
                            cache |-> resume.cache]

\* calculate_soft_match_score: 0.0 for an empty text and when the body raises.
\* `exc` tells whether the body raised.
calculate_soft_match_score(jd_text, resume_text, key_valid, cache, env) ==
    IF Falsy(jd_text) \/ Falsy(resume_text)
    THEN [val |-> RInt(0), cache |-> cache, exc |-> FALSE]
    ELSE LET r == soft_match_body(jd_text, resume_text, key_valid, cache, env)
         IN  IF r.exc THEN [val |-> RInt(0), cache |-> r.cache, exc |-> TRUE]
             ELSE [val |-> r.val, cache |-> r.cache, exc |-> FALSE]

\* The result of the except branch of calculate_relevance_score.
DefaultResult(hard_weight, soft_weight) ==
    [hard_pct |-> RInt(0), soft_pct |-> RInt(0), final_score |-> RInt(0),
     verdict |-> "Low", missing_skills |-> << >>,
     hard_weight |-> hard_weight, soft_weight |-> soft_weight]

\* The final score with the two weights exchanged.
final_score_of_swapped(hard_weight, soft_weight, hard_score, soft_score) ==
    IF ~IsNumber(hard_weight) \/ ~IsNumber(soft_weight) THEN Raised
    ELSE Ret(Round2(RAdd(RMul(soft_weight, hard_score),
                         RMul(hard_weight, soft_score))))

\* round(hard_weight * hard_score + soft_weight * soft_score, 2); raises
\* TypeError when a weight is no number.
final_score_of(hard_weight, soft_weight, hard_score, soft_score) ==
    IF ~IsNumber(hard_weight) \/ ~IsNumber(soft_weight) THEN Raised
    ELSE Ret(Round2(RAdd(RMul(hard_weight, hard_score),
                         RMul(soft_weight, soft_score))))

\* The try block of calculate_relevance_score, given what its calls of
\* calculate_hard_match_score, calculate_soft_match_score and
\* find_missing_skills returned: the dict returned, or Raised.
relevance_body(hard_weight, soft_weight, hard, soft, missing) ==
    LET hard_score == hard.val
        soft_score == soft.val
        final == final_score_of(hard_weight, soft_weight, hard_score, soft_score)
    IN  IF final.exc THEN Raised
        ELSE Ret([hard_pct |-> hard_score, soft_pct |-> soft_score,
                  final_score |-> final.val,
                  verdict |-> determine_verdict(final.val),
                  missing_skills |-> missing.val,
                  hard_weight |-> hard_weight, soft_weight |-> soft_weight])

\* calculate_relevance_score, given what the three calls returned.  `raised`
\* tells whether the call raised to its caller, `result` is the dict
\* returned, and `exc` tells in which steps an exception was raised: inside
\* calculate_hard_match_score, calculate_soft_match_score or
\* find_missing_skills (each catches its own), or in the final-score step,
\* which only the except branch of calculate_relevance_score catches and
\* after which find_missing_skills is not called.
calculate_relevance_score(hard_weight, soft_weight, hard, soft, missing) ==
    LET body == relevance_body(hard_weight, soft_weight, hard, soft, missing)
    IN  [raised |-> FALSE,
         result |-> IF body.exc THEN DefaultResult(hard_weight, soft_weight)
                    ELSE body.val,
         exc |-> [hard |-> hard.exc, soft |-> soft.exc, final |-> body.exc,
                  missing |-> ~body.exc /\ missing.exc]]

-----------------------------------------------------------------------------
(* The inputs of the model *)

JdTexts == {"", "Required: Python, SQL. Preferred: AWS, Docker."}

ResumeTexts ==
    {"", "5 years Python, SQL expert", "5 years Python expert", "Python",
     "AWS and Docker, git", "Python, communication, problem solving and teamwork",
     NonStr}

\* {} and the requirements of the model; a dict may lack a key, and a list
\* that came from the generation service may hold an entry that is no str.
EmptyDict == [k \in {} |-> << >>]
Req(must_have, good_to_have) ==
    [must_have |-> must_have, good_to_have |-> good_to_have]
Requirements ==
    {EmptyDict,
     Req(<<"Python", "SQL">>, <<"AWS">>),
     Req(<< >>, <<"Aws", "Docker", "Git", "Java">>),
     Req(<<"Python", "Sql", "Aws", "Docker", "Git", "Kubernetes", "Java">>,
         <<"Agile", "Nlp", "Go">>),
     Req(<<"Kubernetes", "Python">>, <<"Java", "Agile", "Python", "Nlp", "Go">>),
     Req(<<"Communication", "Problem Solving", "Teamwork">>, << >>),
     Req(<<"Python", "Communication">>, <<"Teamwork", "Git">>),
     Req(<<"Python", NonStr>>, <<"AWS">>),
     [must_have |-> <<"python", "R">>]}

\* The slider of the dashboards gives hard_weight in steps of 0.1 and
\* soft_weight = 1 - hard_weight; a caller may pass anything.
Tenths(k) == Rat(k, 10)
WeightPairs ==
    {<<Tenths(k), Tenths(10 - k)>> : k \in {0, 5, 6, 7, 10}}
    \cup {<<Tenths(6), Tenths(6)>>, <<NotANumber, Tenths(4)>>}

\* The courses of a get_embeddings call of one text that the scoring model
\* draws from: those of EmbedEnv in which only the first endpoint may answer,
\* with at most one item, and each lower tier has one outcome when it runs.
ScoreEmbedEnv ==
    {e \in EmbedEnv :
        /\ e.responses[2] = ApiNotOk
        /\ e.responses[1] \in {ApiNotOk, ApiOk(RawData(<< >>)),
                                ApiOk(RawData(<<Item(<<6, 8>>)>>)),
                                ApiOk(RawData(<<Item(<<0 - 10, 0>>)>>))}
        /\ e.grok_import = "ImportError" => e.st_import_ok /\ e.st_load_ok
        /\ e.st_encode_ok /\ e.st_load_ok =>
              e.st_import_ok /\ e.st_vecs = [i \in 1..MaxTexts |-> MixedVec(EMBED_DIM)]
        /\ e.tfidf_ok => e.tfidf_vecs = [i \in 1..MaxTexts |-> MixedVec(TFIDF_DIM)]
        /\ e.rand_vecs = [i \in 1..MaxTexts |-> HalfVec(TFIDF_DIM)]}

SoftEnv ==
    {SoftEnvOf(TRUE, e1, e2, RInt(0)) : e1 \in ScoreEmbedEnv, e2 \in ScoreEmbedEnv}
    \cup {SoftEnvOf(FALSE, EnvUnused, EnvUnused, Rat(v, 100)) :
            v \in {0, 1998, 2000, 7998, 8000, 10000}}

\* What calculate_soft_match_score may return for two non-empty texts, given
\* the validity of the key and the model cache before the call.
SoftResultsFor(key_valid, cache) ==
    {calculate_soft_match_score("jd", "resume", key_valid, cache, env) :
        env \in SoftEnv}
SoftKeyCold == SoftResultsFor(TRUE, {})
SoftKeyWarm == SoftResultsFor(TRUE, {DEFAULT_MODEL})
SoftNoKeyCold == SoftResultsFor(FALSE, {})
SoftNoKeyWarm == SoftResultsFor(FALSE, {DEFAULT_MODEL})

-----------------------------------------------------------------------------
(* The state: the configured key of grok_client, the model cache of        *)
(* embeddings, and the call of a public function that is being made, with  *)
(* what it returned.                                                       *)

VARIABLES GROK_KEY, model_cache, call

vars == <<GROK_KEY, model_cache, call>>

\* GROK_KEY as configured: none, the placeholder of the .env template, a key.
KeyValues == {"", "sk-your-api-key-here", "sk-live-key"}

\* The negation of the test of grok_generate and grok_embeddings.
KeyValid(key) == ~(key = "" \/ key = "sk-your-api-key-here")

NoCall == [op |-> "none"]

\* A call of grok_client that is still inside its endpoint loop.
InEndpointLoop(c) == c.op \in {"grok_generate", "grok_embeddings"} /\ c.pc = "post"

\* A call that has not returned yet: a call of grok_client inside its endpoint
\* loop, a batch inside its loop over the files, or a thread inside
\* get_sentence_transformer_embeddings.
Running(c) ==
    \/ InEndpointLoop(c)
    \/ c.op = "process_resumes" /\ c.pc = "loop"
    \/ c.op = "get_sentence_transformer_embeddings"
         /\ \E t \in DOMAIN c.threads : c.threads[t].pc \notin {"idle", "done"}

Init ==
    /\ GROK_KEY \in KeyValues
    /\ model_cache = {}
    /\ call = NoCall

\* The caller takes the result; the process is ready for the next call.
Return ==
    /\ call # NoCall
    /\ ~Running(call)
    /\ call' = NoCall
    /\ UNCHANGED <<GROK_KEY, model_cache>>

\* What its calculate_soft_match_score may return to calculate_relevance_score.
SoftResults(jd_text, resume_text) ==
    IF Falsy(jd_text) \/ Falsy(resume_text)
    THEN {[val |-> RInt(0), cache |-> model_cache, exc |-> FALSE]}
    ELSE IF KeyValid(GROK_KEY)
         THEN (IF DEFAULT_MODEL \in model_cache THEN SoftKeyWarm ELSE SoftKeyCold)
         ELSE (IF DEFAULT_MODEL \in model_cache THEN SoftNoKeyWarm ELSE SoftNoKeyCold)

\* The job description of the example of the specification.
SessionText == "Required: Python, SQL. Preferred: AWS, Docker."

\* What calculate_hard_match_score and find_missing_skills return for each
\* resume and requirement of the model, with the skills that
\* extract_skills_from_resume finds in the resume.
ScoreInputs ==
    {[resume_text |-> resume_text, jd_skills |-> jd_skills,
      hard |-> calculate_hard_match_score(resume_text, jd_skills),
      missing |-> find_missing_skills(resume_text, jd_skills),
      resume_skills |-> extract_skills_from_resume(resume_text)] :
        resume_text \in ResumeTexts, jd_skills \in Requirements}

\* A call of calculate_relevance_score.  The record of the call keeps the
\* skills that extract_skills_from_resume found in the resume.
Score ==
    /\ call = NoCall
    /\ \E in \in ScoreInputs, jd_text \in JdTexts, w \in WeightPairs :
          \E soft \in SoftResults(jd_text, in.resume_text) :
            LET r == calculate_relevance_score(w[1], w[2], in.hard, soft, in.missing)
            IN  /\ call' = [op |-> "calculate_relevance_score",
                            jd_text |-> jd_text, resume_text |-> in.resume_text,
                            jd_skills |-> in.jd_skills,
                            resume_skills |-> in.resume_skills,
                            raised |-> r.raised, result |-> r.result,
                            exc |-> r.exc]
                /\ model_cache' = soft.cache
                /\ UNCHANGED GROK_KEY

\* A call of calculate_hard_match_score.
HardMatch ==
    /\ call = NoCall
    /\ \E in \in ScoreInputs :
          call' = [op |-> "calculate_hard_match_score",
                   resume_text |-> in.resume_text, jd_skills |-> in.jd_skills,
                   resume_skills |-> in.resume_skills,
                   raised |-> FALSE, result |-> in.hard.val, exc |-> in.hard.exc]
    /\ UNCHANGED <<GROK_KEY, model_cache>>

\* A call of find_missing_skills.
MissingSkills ==
    /\ call = NoCall
    /\ \E in \in ScoreInputs :
          call' = [op |-> "find_missing_skills",
                   resume_text |-> in.resume_text, jd_skills |-> in.jd_skills,
                   resume_skills |-> in.resume_skills,
                   raised |-> FALSE, result |-> in.missing.val,
                   exc |-> in.missing.exc]
    /\ UNCHANGED <<GROK_KEY, model_cache>>

\* calculate_soft_match_score of the two texts in a process whose model
\* cache is `cache`, for the similarities 0 and 0.8.
SoftResultsIn(jd_text, resume_text, cache) ==
    IF Falsy(jd_text) \/ Falsy(resume_text)
    THEN {[val |-> RInt(0), cache |-> cache, exc |-> FALSE]}
    ELSE {soft \in (IF KeyValid(GROK_KEY)
                    THEN (IF DEFAULT_MODEL \in cache THEN SoftKeyWarm ELSE SoftKeyCold)
                    ELSE (IF DEFAULT_MODEL \in cache THEN SoftNoKeyWarm
                          ELSE SoftNoKeyCold)) :
            soft.val \in {RInt(0), RInt(80)}}

\* The weights of two calls for one job: of the slider, and a small
\* hard_weight that a caller may pass.
PairWeights ==
    {<<Tenths(6), Tenths(4)>>, <<Tenths(10), Tenths(0)>>, <<Tenths(0), Tenths(10)>>,
     <<Rat(1, 10000), Rat(9999, 10000)>>}

\* The rows of ScoreInputs with what calculate_skill_match returns for the
\* skills of the resume.
MatchInputs ==
    {[in |-> in,
      match |-> IF in.resume_skills.exc THEN Raised
                ELSE calculate_skill_match(in.resume_skills.val, in.jd_skills)] :
        in \in ScoreInputs}

\* The soft scores of SoftResultsIn.
PairSoftValues == {RInt(0), RInt(80)}

\* The pairs of rows with one requirement.
ResumePairs ==
    {pair \in MatchInputs \X MatchInputs : pair[1].in.jd_skills = pair[2].in.jd_skills}

\* What a call of calculate_relevance_score leaves in the record of ScoreTwo,
\* for each row, pair of weights and soft score: the resume, what
\* calculate_skill_match returned for it, and the result of the call.
ScoredResume ==
    [row \in MatchInputs, w \in PairWeights, soft_score \in PairSoftValues |->
        [resume_text |-> row.in.resume_text, match |-> row.match,
         result |-> calculate_relevance_score(
                        w[1], w[2], row.in.hard,
                        [val |-> soft_score, exc |-> FALSE], row.in.missing).result]]

\* Two calls of calculate_relevance_score for two resumes with one job
\* description, requirement and weights, the second after the first.
ScoreTwo ==
    /\ call = NoCall
    /\ \E pair \in ResumePairs, w \in PairWeights :
         \E soft1 \in SoftResultsIn(SessionText, pair[1].in.resume_text, model_cache) :
         \E soft2 \in SoftResultsIn(SessionText, pair[2].in.resume_text, soft1.cache) :
           /\ call' = [op |-> "calculate_relevance_score_twice",
                       jd_text |-> SessionText, jd_skills |-> pair[1].in.jd_skills,
                       hard_weight |-> w[1], soft_weight |-> w[2],
                       first |-> ScoredResume[pair[1], w, soft1.val],
                       second |-> ScoredResume[pair[2], w, soft2.val]]
           /\ model_cache' = soft2.cache
    /\ UNCHANGED GROK_KEY

\* The texts of the calls of calculate_soft_match_score.
SoftTexts == {"", SessionText, "5 years Python, SQL expert", "Python"}

\* The vectors of grok_embeddings for one text when no key is configured.
MockVectors == <<ConstVec(EMBED_DIM, 1)>>

\* One calculate_soft_match_score of two non-empty texts in the course env:
\* whether the import of the embeddings module succeeded, what the import of
\* grok_client did in each get_embeddings call, the tiers each call tried,
\* whether each returned the mock vector, and the result.  The second
\* get_embeddings call is not made when the first returned no vector.
SoftCourseOf(key_valid, cache, env) ==
    LET jd == get_embeddings(<<"jd">>, DEFAULT_MODEL, key_valid, cache, env.jd_env)
        resume == get_embeddings(<<"resume">>, DEFAULT_MODEL, key_valid, jd.cache,
                                 env.resume_env)
        first == env.embeddings_import_ok
        second == first /\ Len(jd.embeddings) # 0
    IN  [embeddings_import_ok |-> env.embeddings_import_ok,
         grok_import |-> <<env.jd_env.grok_import, env.resume_env.grok_import>>,
         tried |-> <<IF first THEN jd.tried ELSE << >>,
                     IF second THEN resume.tried ELSE << >> >>,
         mock |-> <<first /\ jd.embeddings = MockVectors,
                    second /\ resume.embeddings = MockVectors>>,
         r |-> calculate_soft_match_score("jd", "resume", key_valid, cache, env)]

SoftCourses ==
    [key_valid \in BOOLEAN, cache \in SUBSET {DEFAULT_MODEL}, env \in SoftEnv |->
        SoftCourseOf(key_valid, cache, env)]

\* A call of calculate_soft_match_score.
SoftMatch ==
    /\ call = NoCall
    /\ \E jd_text \in SoftTexts, resume_text \in SoftTexts, env \in SoftEnv :
         \E c \in {SoftCourses[KeyValid(GROK_KEY), model_cache \cap {DEFAULT_MODEL},
                                env]} :
           IF Falsy(jd_text) \/ Falsy(resume_text)
           THEN /\ call' = [op |-> "calculate_soft_match_score",
                            jd_text |-> jd_text, resume_text |-> resume_text,
                            key_valid |-> KeyValid(GROK_KEY),
                            embeddings_import_ok |-> TRUE,
                            grok_import |-> <<"ok", "ok">>,
                            tried |-> << << >>, << >> >>,
                            mock |-> <<FALSE, FALSE>>,
                            r |-> [val |-> RInt(0), cache |-> model_cache,
                                   exc |-> FALSE]]
                /\ UNCHANGED model_cache
           ELSE /\ call' = [op |-> "calculate_soft_match_score",
                            jd_text |-> jd_text, resume_text |-> resume_text,
                            key_valid |-> KeyValid(GROK_KEY)] @@ c
                /\ model_cache' = model_cache \cup c.r.cache
    /\ UNCHANGED GROK_KEY

ScoreNext == Score \/ HardMatch \/ MissingSkills \/ ScoreTwo \/ SoftMatch \/ Return

SpecScore == Init /\ [][ScoreNext]_vars

-----------------------------------------------------------------------------
(* Skill extraction *)

ExtractJdTexts ==
    {"", "  ", "python",
     "Required: Python, SQL. Preferred: AWS, Docker.",
     "We need Python, Java, Docker, Kubernetes, React, Agile and Git",
     "Must have Sql Server, MySQL and REST API. Nice to have: Git, GitHub, Kubernetes, Docker, AWS, React, Express, Java, JavaScript, Agile, NLP.",
     "Python required, AWS preferred. Git is used daily. Python is essential! Python is key",
     "git sql", "Teamwork needed",
     NonStr, Bytes}

\* The locals of a call that raised before it had any.
NoLocals == [mentioned_skills |-> << >>, cues |-> << >>,
             must_have |-> << >>, good_to_have |-> << >>]

\* What extract_skills_with_keywords does for each text of the model under
\* each hash seed.
KeywordTable ==
    UNION {IF IsStr(jd_text)
           THEN With(locals_by_seed(jd_text), LAMBDA locals :
                  {[jd_text |-> jd_text, seed |-> p[1], keywords |-> Ret(p[2]),
                    locals |-> locals[p[1]]] :
                       p \in keywords_by_seed(jd_text)})
           ELSE {[jd_text |-> jd_text, seed |-> seed,
                  keywords |-> extract_skills_with_keywords(jd_text, seed),
                  locals |-> NoLocals] :
                    seed \in HashSeeds} :
           jd_text \in ExtractJdTexts}

\* The first n of ten skill names.
SkillNames(n) ==
    Take(<<"Python", "SQL", "Machine Learning", "Pandas", "Data Modeling",
           "TensorFlow", "AWS", "Spark", "Tableau", "Git">>, n)

\* The texts a generation endpoint may answer with.
GenTexts ==
    {TextNone, TextNotJson,
     TextJson(PyList(SkillNames(2))),
     TextJson(PyDict([good_to_have |-> PyList(SkillNames(2))])),
     TextJson(PyDict([must_have |-> PyList(SkillNames(3)),
                      good_to_have |-> PyList(SkillNames(2))])),
     TextJson(PyDict([must_have |-> PyList(SkillNames(7)),
                      good_to_have |-> PyList(SkillNames(10))])),
     TextJson(PyDict([must_have |-> PyList(<< >>),
                      good_to_have |-> PyList(SkillNames(10))])),
     TextJson(PyDict([must_have |-> PyStr("Python, SQL"),
                      good_to_have |-> PyStr("AWS or Spark")])),
     TextJson(PyDict([must_have |-> PyNull, good_to_have |-> PyList(SkillNames(2))])),
     TextJson(PyDict([must_have |-> PyList(SkillNames(2))])),
     TextJson(PyDict([must_have |-> PyList(SkillNames(2)), good_to_have |-> PyNull])),
     TextJson(PyDict([must_have |-> PyList(<<"Python", NonStr>>),
                      good_to_have |-> PyList(<< >>)]))}

\* The courses of one extract_skills_with_ai: the import of grok_client
\* fails; every endpoint fails; the first, second or third endpoint answers.
AiEnvs ==
    {[grok_import_ok |-> FALSE, responses |-> <<ApiNotOk, ApiNotOk, ApiNotOk>>],
     [grok_import_ok |-> TRUE, responses |-> <<ApiNotOk, ApiRaised, ApiNotOk>>]}
    \cup {[grok_import_ok |-> TRUE, responses |-> rs] :
            rs \in UNION {{<<GenOk(t), ApiNotOk, ApiNotOk>>,
                           <<ApiRaised, GenOk(t), ApiNotOk>>,
                           <<ApiNotOk, ApiRaised, GenOk(t)>>} : t \in GenTexts}}

\* What extract_skills_with_ai may return, with and without a valid key.
AiResultsKey == {extract_skills_with_ai(TRUE, env) : env \in AiEnvs}
AiResultsNoKey == {extract_skills_with_ai(FALSE, env) : env \in AiEnvs}

\* A call of extract_skills_from_jd.
ExtractJd ==
    /\ call = NoCall
    /\ \E k \in KeywordTable, use_ai \in BOOLEAN :
        \E ai \in (IF KeyValid(GROK_KEY) THEN AiResultsKey ELSE AiResultsNoKey) :
          LET r == extract_skills_from_jd(k.jd_text, use_ai, ai, k.keywords)
          IN  call' = [op |-> "extract_skills_from_jd", jd_text |-> k.jd_text,
                       use_ai |-> use_ai, seed |-> k.seed,
                       key_valid |-> KeyValid(GROK_KEY),
                       keywords |-> k.keywords, r |-> r]
    /\ UNCHANGED <<GROK_KEY, model_cache>>

\* A call of extract_skills_from_resume.
ExtractResume ==
    /\ call = NoCall
    /\ \E in \in ScoreInputs :
          call' = [op |-> "extract_skills_from_resume",
                   resume_text |-> in.resume_text,
                   raised |-> in.resume_skills.exc, exc |-> in.resume_skills.exc,
                   r |-> in.resume_skills]
    /\ UNCHANGED <<GROK_KEY, model_cache>>

\* Two calls of extract_skills_with_keywords on one text, each in a process
\* with its own hash seed (the same process when the seeds agree).  The
\* record keeps the locals of the first call after its loop over the
\* sentences.
ExtractKeywordsTwice ==
    /\ call = NoCall
    /\ \E k \in KeywordTable, again \in KeywordTable :
         /\ again.jd_text = k.jd_text
         /\ call' = [op |-> "extract_skills_with_keywords", jd_text |-> k.jd_text,
                     seed |-> k.seed, seed_again |-> again.seed,
                     locals |-> k.locals,
                     r |-> k.keywords, r_again |-> again.keywords]
    /\ UNCHANGED <<GROK_KEY, model_cache>>

ExtractNext == ExtractJd \/ ExtractResume \/ ExtractKeywordsTwice \/ Return

SpecExtract == Init /\ [][ExtractNext]_vars

-----------------------------------------------------------------------------
(* The embeddings model: calls of get_embeddings and calculate_similarity *)

\* The lists of up to MaxTexts texts; get_embeddings reads of its texts only
\* how many they are.
TextLists == UNION {[1..n -> {"Python developer"}] : n \in 0..MaxTexts}

\* A call of get_embeddings under the configured key and the model cache of
\* the process; the cache keeps the models the call constructed.
GetEmbeddings ==
    /\ call = NoCall
    /\ \E texts \in TextLists, model_name \in ModelNames, env \in EmbedEnv :
         \E r \in {get_embeddings(texts, model_name, KeyValid(GROK_KEY),
                                  model_cache, env)} :
           /\ call' = [op |-> "get_embeddings", texts |-> texts,
                       model_name |-> model_name, key_valid |-> KeyValid(GROK_KEY),
                       cache |-> model_cache, env |-> env, r |-> r]
           /\ model_cache' = r.cache
    /\ UNCHANGED GROK_KEY

\* The vectors that calculate_similarity is called with: of the service, of
\* the tiers, zero vectors and the empty vector.
SimVectors ==
    ServiceVecs \cup LocalVecs \cup TfidfVecs \cup RandVecs
    \cup {<< >>, <<0, 0>>, <<8, 6>>, <<1, 0>>, <<0 - 6, 0 - 8>>,
          ConstVec(EMBED_DIM, 0), ConstVec(EMBED_DIM, 1)}

\* A call of calculate_similarity.
Similarity ==
    /\ call = NoCall
    /\ \E embedding1 \in SimVectors, embedding2 \in SimVectors :
         call' = [op |-> "calculate_similarity", embedding1 |-> embedding1,
                  embedding2 |-> embedding2,
                  result |-> calculate_similarity(embedding1, embedding2)]
    /\ UNCHANGED <<GROK_KEY, model_cache>>

EmbedNext == GetEmbeddings \/ Similarity \/ Return

SpecEmbed == Init /\ [][EmbedNext]_vars

-----------------------------------------------------------------------------
(* feedback.py: generate_feedback *)

Max(S) == CHOOSE x \in S : \A y \in S : y <= x

\* str.strip()
Strip(s) ==
    With({i \in 1..Len(s) : ~IsSpace(Char(s, i))}, LAMBDA kept :
      IF kept = {} THEN "" ELSE SubSeq(s, Min(kept), Max(kept)))

RECURSIVE WithoutQuotes(_, _, _)
\* The characters lo..hi of s.replace('"', '').replace("'", '').
WithoutQuotes(s, lo, hi) ==
    IF lo > hi THEN ""
    ELSE IF lo = hi
    THEN (IF Char(s, lo) \in {"\"", "'"} THEN "" ELSE Char(s, lo))
    ELSE With((lo + hi) \div 2, LAMBDA mid :
           WithoutQuotes(s, lo, mid) \o WithoutQuotes(s, mid + 1, hi))

RECURSIVE Join(_, _)
\* sep.join(list); raises TypeError when an entry is no str.
Join(list, sep) ==
    IF list = << >> THEN ""
    ELSE IF Len(list) = 1 THEN list[1]
    ELSE list[1] \o sep \o Join(Tail(list), sep)

technical_keywords == <<"python", "java", "javascript", "sql", "machine learning", "data">>
tool_keywords == <<"git", "docker", "aws", "kubernetes", "jenkins">>

\* The bucket of one missing skill.
Bucket(skill) ==
    With(Lower(skill), LAMBDA skill_lower :
      IF AnyIn(technical_keywords, skill_lower) THEN "technical"
      ELSE IF AnyIn(tool_keywords, skill_lower) THEN "tool"
      ELSE "soft")

\* generate_template_feedback.  Raises when one of the first three entries is
\* no str (skill.lower()).
generate_template_feedback(missing_skills) ==
    IF missing_skills = << >>
    THEN Ret("Your resume looks strong! Consider adding more specific achievements and metrics.")
    ELSE With(Take(missing_skills, 3), LAMBDA first :
      IF \E i \in 1..Len(first) : ~IsStr(first[i]) THEN Raised
      ELSE
      With(SelectSeq(first, LAMBDA skill : Bucket(skill) = "technical"), LAMBDA technical_skills :
      With(SelectSeq(first, LAMBDA skill : Bucket(skill) = "tool"), LAMBDA tools :
      With(SelectSeq(first, LAMBDA skill : Bucket(skill) = "soft"), LAMBDA soft_skills :
        IF technical_skills # << >>
        THEN Ret("Complete a 2-week project demonstrating " \o technical_skills[1]
                 \o " and showcase it on GitHub with detailed documentation.")
        ELSE IF tools # << >>
        THEN Ret("Set up a personal project using " \o tools[1]
                 \o " and document the process to demonstrate hands-on experience.")
        ELSE IF soft_skills # << >>
        THEN Ret("Add a section highlighting " \o soft_skills[1]
                 \o " with specific examples from your experience and quantify your impact.")
        ELSE Ret("Focus on developing skills in " \o Join(Take(missing_skills, 2), ", ")
                 \o " through online courses and practical projects.")))))

\* The text of a response as a str; "" for None or "".
TextStr(text) == IF text.kind = "none" THEN "" ELSE text.str

\* generate_ai_feedback: the cleaned text of the response when it is ok and
\* has a text; a fixed sentence when it is not or when an exception is raised
\* inside (the import of grok_client fails, an entry of missing_skills is no
\* str).  `exc`: an exception was raised inside; `ok`: the response was ok
\* with a text.
generate_ai_feedback(key_valid, env, missing_skills) ==
    IF ~env.grok_import_ok \/ \E i \in 1..Len(Take(missing_skills, 5)) : ~IsStr(missing_skills[i])
    THEN [val |-> "AI feedback unavailable", exc |-> TRUE, ok |-> FALSE]
    ELSE With(grok_generate(key_valid, env.responses), LAMBDA response :
           IF response.ok /\ response.text.kind # "none"
           THEN With(Strip(TextStr(response.text)), LAMBDA feedback :
                  [val |-> WithoutQuotes(feedback, 1, Len(feedback)),
                   exc |-> FALSE, ok |-> TRUE])
           ELSE [val |-> "Unable to generate AI feedback", exc |-> FALSE, ok |-> FALSE])

\* generate_feedback, given what generate_ai_feedback returned: its text
\* unless that is empty or the mock response, else the template.  The except
\* branch calls generate_template_feedback again, which raises again.
generate_feedback(ai, missing_skills) ==
    IF ai.val # "" /\ ai.val # MockText.str
    THEN [raised |-> FALSE, val |-> ai.val, path |-> "ai"]
    ELSE With(generate_template_feedback(missing_skills), LAMBDA template :
           IF template.exc THEN [raised |-> TRUE, path |-> "except"]
           ELSE [raised |-> FALSE, val |-> template.val, path |-> "template"])

\* The texts of a generation response to the feedback prompt.
FeedbackTexts ==
    {TextNone, MockText, TextPlain(" "), TextPlain("\"\""),
     TextPlain("Add a 2-week Kaggle project."),
     TextPlain("  \"Learn Docker's basics\" \n")}

\* The courses of one generate_ai_feedback: the import of grok_client fails;
\* every endpoint fails; the first, second or third endpoint answers.
FeedbackEnvs ==
    {[grok_import_ok |-> FALSE, responses |-> <<ApiNotOk, ApiNotOk, ApiNotOk>>],
     [grok_import_ok |-> TRUE, responses |-> <<ApiNotOk, ApiRaised, ApiNotOk>>]}
    \cup {[grok_import_ok |-> TRUE, responses |-> rs] :
            rs \in UNION {{<<GenOk(t), ApiNotOk, ApiNotOk>>,
                           <<ApiRaised, GenOk(t), ApiNotOk>>,
                           <<ApiNotOk, ApiRaised, GenOk(t)>>} : t \in FeedbackTexts}}

\* The missing_skills that generate_feedback is called with; find_missing_skills
\* gives lower-cased entries, and an entry may be no str.
MissingLists ==
    {<< >>, <<"sql">>, <<"docker", "python">>, <<"teamwork", "aws">>,
     <<"leadership">>, <<"agile", "nlp", "go", "java">>, <<NonStr>>}

\* The template feedback for each missing_skills of the model.
TemplateTable ==
    {[missing_skills |-> m, template |-> generate_template_feedback(m)] :
        m \in MissingLists}

\* A call of generate_feedback.
Feedback ==
    /\ call = NoCall
    /\ \E in \in TemplateTable, env \in FeedbackEnvs :
         \E ai \in {generate_ai_feedback(KeyValid(GROK_KEY), env, in.missing_skills)} :
           call' = [op |-> "generate_feedback", missing_skills |-> in.missing_skills,
                    key_valid |-> KeyValid(GROK_KEY), env |-> env, ai |-> ai,
                    template |-> in.template,
                    r |-> generate_feedback(ai, in.missing_skills)]
    /\ UNCHANGED <<GROK_KEY, model_cache>>

FeedbackNext == Feedback \/ Return

SpecFeedback == Init /\ [][FeedbackNext]_vars

-----------------------------------------------------------------------------
(* grok_client.py: a call of grok_generate or grok_embeddings, one HTTP    *)
(* request at a time                                                       *)

\* max_retries of make_api_request.
max_retries == 3

\* The endpoints of grok_generate and of grok_embeddings, after GROK_URL.
endpoints(op) ==
    IF op = "grok_generate"
    THEN <<"/generate", "/completions", "/chat/completions">>
    ELSE <<"/embeddings", "/embed">>

\* What make_api_request returns for a 200 whose body is JSON.
OkResponses(op) ==
    IF op = "grok_generate"
    THEN {GenOk(TextPlain("Add a 2-week Kaggle project."))}
    ELSE {ApiOk(RawNoData), ApiOk(RawBadData)}
         \cup {ApiOk(RawData(items)) : items \in ItemLists(1)}

\* What one requests.post of make_api_request may do: answer 200 with a JSON
\* body, with a body that is no JSON, or with a JSON body that is no dict
\* (extract_text_from_response raises on it); answer 429, 503 or another
\* status; raise Timeout, another RequestException, or any other exception.
PostOutcomes(op) ==
    {[kind |-> k] : k \in {"invalid_json", "body_no_dict", "429", "503",
                           "other_status", "timeout", "request_error",
                           "other_error"}}
    \cup {[kind |-> "200", response |-> r] : r \in OkResponses(op)}

Retry == [retry |-> TRUE]
Leave(response) == [retry |-> FALSE, response |-> response]

\* One pass of the retry loop with 429 and 503 retried once more than
\* max_retries allows.
make_api_request_pass_extra_retry(outcome, attempt) ==
    CASE outcome.kind = "200" -> Leave(outcome.response)
      [] outcome.kind = "invalid_json" -> Leave(ApiNotOk)
      [] outcome.kind \in {"body_no_dict", "other_error"} -> Leave(ApiRaised)
      [] outcome.kind \in {"429", "503"} ->
            IF attempt + 1 < max_retries + 1 THEN Retry ELSE Leave(ApiNotOk)
      [] outcome.kind = "other_status" -> Leave(ApiNotOk)
      [] outcome.kind \in {"timeout", "request_error"} ->
            IF attempt < max_retries - 1 THEN Retry ELSE Leave(ApiNotOk)

\* One pass of the loop `for attempt in range(max_retries)` of
\* make_api_request, for what its requests.post did: the loop goes on, or the
\* function is left with a dict or with an exception.  After 429 and 503 the
\* loop continues, and ends with "Max retries exceeded" after the last pass.
make_api_request_pass(outcome, attempt) ==
    CASE outcome.kind = "200" -> Leave(outcome.response)
      [] outcome.kind = "invalid_json" -> Leave(ApiNotOk)
      [] outcome.kind \in {"body_no_dict", "other_error"} -> Leave(ApiRaised)
      [] outcome.kind \in {"429", "503"} ->
            IF attempt + 1 < max_retries THEN Retry ELSE Leave(ApiNotOk)
      [] outcome.kind = "other_status" -> Leave(ApiNotOk)
      [] outcome.kind \in {"timeout", "request_error"} ->
            IF attempt < max_retries - 1 THEN Retry ELSE Leave(ApiNotOk)

\* A wait of one second after every failed attempt.
backoff_wait_constant(outcome, attempt) ==
    CASE outcome.kind \in {"429", "503"} -> 1
      [] outcome.kind \in {"timeout", "request_error"} ->
            IF attempt < max_retries - 1 THEN 1 ELSE 0
      [] OTHER -> 0

\* The seconds of time.sleep in one pass of the retry loop: 2 ** attempt
\* after 429 and 503, and after a Timeout or RequestException that is not
\* the one of the last attempt.
backoff_wait(outcome, attempt) ==
    CASE outcome.kind \in {"429", "503"} -> 2 ^ attempt
      [] outcome.kind \in {"timeout", "request_error"} ->
            IF attempt < max_retries - 1 THEN 2 ^ attempt ELSE 0
      [] OTHER -> 0

\* The last pass of the retry loop: the endpoint, the attempt, what
\* requests.post did, the seconds slept and whether the loop went on.
PassOf(endpoint, attempt, outcome, pass) ==
    [endpoint |-> endpoint, attempt |-> attempt, kind |-> outcome.kind,
     wait |-> backoff_wait(outcome, attempt), retry |-> pass.retry]
NoPass == [kind |-> "none"]

\* What the endpoint loop makes of the response of one endpoint.
EndpointResult(op, response) ==
    IF op = "grok_generate" THEN grok_generate_loop(<<response>>, 1)
    ELSE grok_embeddings_loop(<<response>>, 1)

\* The calls of the client.
ClientCalls ==
    {[op |-> "grok_generate"]}
    \cup {[op |-> "grok_embeddings", texts |-> texts] : texts \in TextLists}

\* The mock response of a call without a valid key.
MockResult(c) ==
    IF c.op = "grok_generate" THEN grok_generate(FALSE, << >>)
    ELSE grok_embeddings(c.texts, FALSE, << >>)

\* The call has returned r; posts[k] requests went to endpoint k, and `last`
\* was the last pass of a retry loop.
ClientDone(c, posts, last, r) ==
    [op |-> c.op, args |-> c.args, pc |-> "done", key_valid |-> c.key_valid,
     endpoint |-> c.endpoint, posts |-> posts, last |-> last, r |-> r]

\* grok_generate or grok_embeddings is called: without a valid key it returns
\* its mock response; else it enters the loop over its endpoints.
ClientCall ==
    /\ call = NoCall
    /\ \E c \in ClientCalls :
         \E start \in {[op |-> c.op, args |-> c, pc |-> "post",
                        key_valid |-> KeyValid(GROK_KEY), endpoint |-> 1,
                        posts |-> [k \in 1..Len(endpoints(c.op)) |-> 0],
                        last |-> NoPass]} :
           call' = IF KeyValid(GROK_KEY) THEN start
                   ELSE ClientDone(start, start.posts, NoPass, MockResult(c))
    /\ UNCHANGED <<GROK_KEY, model_cache>>

\* One requests.post of the call and everything up to the next one: the
\* retry loop goes on, or make_api_request is left and the endpoint loop
\* returns or moves to the next endpoint, or returns that all failed.
ClientPost ==
    /\ InEndpointLoop(call)
    /\ \E outcome \in PostOutcomes(call.op) :
         \E pass \in {make_api_request_pass(outcome, call.posts[call.endpoint])},
            posts \in {[call.posts EXCEPT ![call.endpoint] = @ + 1]} :
          \E last \in {PassOf(call.endpoint, call.posts[call.endpoint], outcome, pass)} :
           IF pass.retry
           THEN call' = [call EXCEPT !.posts = posts, !.last = last]
           ELSE \E r \in {EndpointResult(call.op, pass.response)} :
                  IF r.ok \/ call.endpoint = Len(endpoints(call.op))
                  THEN call' = ClientDone(call, posts, last, r)
                  ELSE call' = [call EXCEPT !.posts = posts, !.last = last,
                                            !.endpoint = @ + 1]
    /\ UNCHANGED <<GROK_KEY, model_cache>>

ClientNext == ClientCall \/ ClientPost \/ Return

SpecClient == Init /\ [][ClientNext]_vars

\* requests.post returns or raises within its timeout, so a call that is in
\* its loop goes on.
SpecClientFair == SpecClient /\ WF_vars(ClientPost)

-----------------------------------------------------------------------------
(* ats_analyzer.py: calculate_ats_score *)

RECURSIVE SplitLinesFrom(_, _)
\* resume_text.split('\n'), from index i on.
SplitLinesFrom(s, i) ==
    With(Min({j \in i..Len(s) : Char(s, j) = "\n"} \cup {Len(s) + 1}), LAMBDA e :
      IF e > Len(s) THEN <<SubSeq(s, i, Len(s))>>
      ELSE <<SubSeq(s, i, e - 1)>> \o SplitLinesFrom(s, e + 1))

\* [line.strip() for line in lines if line.strip()]
non_empty_lines(resume_text) ==
    Map(SelectSeq(SplitLinesFrom(resume_text, 1), LAMBDA line : ~IsBlank(line)), Strip)

\* sum(1 for x in list if Test(x))
CountIf(list, Test(_)) == Cardinality({i \in 1..Len(list) : Test(list[i])})

\* line.startswith(('•', '-', '*', '◦')); the texts of the model are ASCII.
StartsWithBullet(line) == Char(line, 1) \in {"-", "*"}

\* line.isupper() and len(line) > 3
IsHeaderLine(line) ==
    /\ Len(line) > 3
    /\ \E i \in 1..Len(line) : Char(line, i) \in UpperChars
    /\ \A i \in 1..Len(line) : Char(line, i) \notin LowerChars

\* re.findall(r'\b(19|20)\d{2}\b', resume_text): the pattern has one group,
\* so findall gives "19" or "20" for each match; as a function from the
\* index of each match to its group.
find_dates(s) ==
    [i \in {j \in 1..(Len(s) - 3) :
              /\ SubSeq(s, j, j + 1) \in {"19", "20"}
              /\ Char(s, j + 2) \in DigitChars
              /\ Char(s, j + 3) \in DigitChars
              /\ IsBoundary(s, j)
              /\ IsBoundary(s, j + 4)}
       |-> IF SubSeq(s, i, i + 1) = "19" THEN 19 ELSE 20]

\* Where a match of \b\d+%|\$\d+|\d+\+|\d+x\b that starts at i ends; 0 when
\* there is none.
NumberEnd(s, i) ==
    IF Char(s, i) = "$"
    THEN With(RunEnd(s, i + 1, "\\d"), LAMBDA e : IF e > i THEN e ELSE 0)
    ELSE With(RunEnd(s, i, "\\d"), LAMBDA e :
           IF e < i \/ e = Len(s) THEN 0
           ELSE IF Char(s, e + 1) = "%" /\ IsBoundary(s, i) THEN e + 1
           ELSE IF Char(s, e + 1) = "+" THEN e + 1
           ELSE IF Char(s, e + 1) = "x" /\ IsBoundary(s, e + 2) THEN e + 1
           ELSE 0)

RECURSIVE CountNumbers(_, _)
\* len(re.findall(number_pattern, resume_text[pos:])): the leftmost match,
\* then the search goes on behind it.
CountNumbers(s, pos) ==
    With({i \in pos..Len(s) : NumberEnd(s, i) > 0}, LAMBDA starts :
      IF starts = {} THEN 0
      ELSE 1 + CountNumbers(s, NumberEnd(s, Min(starts)) + 1))

\* score += 20 if condition
Plus(condition, points) == IF condition THEN points ELSE 0

calculate_formatting_score(resume_text) ==
    With(non_empty_lines(resume_text), LAMBDA lines :
      RInt(Min({100,
                Plus(Len(lines) > 10, 20)
                + Plus(CountIf(lines, StartsWithBullet) > 5, 20)
                + Plus(CountIf(lines, IsHeaderLine) >= 3, 20)
                + Plus(Cardinality(DOMAIN find_dates(resume_text)) >= 2, 20)
                + Plus(CountNumbers(resume_text, 1) >= 3, 20)})))

\* sum(1 for k in keywords if k.lower() in resume_text.lower())
Found(keywords, text_lower) ==
    Cardinality({k \in 1..Len(keywords) : Contains(text_lower, keywords[k])})

required_sections == <<"experience", "education", "skills">>
preferred_sections == <<"summary", "projects", "certifications", "achievements">>
experience_indicators == <<"experience", "work", "employment", "career">>

calculate_content_score(resume_text) ==
    With(Lower(resume_text), LAMBDA text_lower :
      RMin(RAdd(RAdd(RMul(Rat(Found(required_sections, text_lower), 3), RInt(40)),
                     RMul(Rat(Found(preferred_sections, text_lower), 4), RInt(30))),
                RInt(Plus(AnyIn(experience_indicators, text_lower), 30))),
           RInt(100)))

action_verbs ==
    <<"achieved", "developed", "implemented", "managed", "led", "created",
      "designed", "built", "improved", "increased", "reduced", "optimized",
      "collaborated", "coordinated", "delivered", "executed", "facilitated">>
quantifiers ==
    <<"increased", "decreased", "improved", "reduced", "saved", "generated",
      "managed", "led", "supervised", "trained", "mentored">>
tech_keywords ==
    <<"python", "java", "sql", "machine learning", "data analysis",
      "project management">>

calculate_keyword_score(resume_text) ==
    With(Lower(resume_text), LAMBDA text_lower :
      RInt(Min({100,
                Min({Found(action_verbs, text_lower) * 5, 40})
                + Min({Found(quantifiers, text_lower) * 5, 30})
                + Min({Found(tech_keywords, text_lower) * 3, 30})})))

\* The index behind an optional character of `chars` at j.
SkipOne(s, j, chars) == IF j <= Len(s) /\ Char(s, j) \in chars THEN j + 1 ELSE j

\* \d{n} at j
DigitsAt(s, j, n) ==
    j + n - 1 <= Len(s) /\ \A k \in j..(j + n - 1) : Char(s, k) \in DigitChars

\* re.search(phone_pattern, s).  The country code and the opening bracket
\* are optional, so the pattern is found where
\* \d{3}\)?[-.\s]?\d{3}[-.\s]?\d{4} is.
HasPhone(s) ==
    \E i \in 1..Len(s) :
      /\ DigitsAt(s, i, 3)
      /\ With(SkipOne(s, SkipOne(s, i + 3, {")"}), {"-", "."} \cup SpaceChars), LAMBDA j :
           /\ DigitsAt(s, j, 3)
           /\ With(SkipOne(s, j + 3, {"-", "."} \cup SpaceChars), LAMBDA k :
                DigitsAt(s, k, 4)))

\* All of s[lo..hi] is in chars.
AllIn(s, lo, hi, chars) == \A k \in lo..hi : Char(s, k) \in chars

\* re.search(email_pattern, s): around an "@", a local part that starts at a
\* word boundary, a domain, a dot and two or more of [A-Z|a-z] that end at a
\* word boundary.
HasEmail(s) ==
    \E at \in 1..Len(s) :
      /\ Char(s, at) = "@"
      /\ \E i \in 1..(at - 1) :
           /\ IsBoundary(s, i)
           /\ AllIn(s, i, at - 1,
                    UpperChars \cup LowerChars \cup DigitChars \cup {".", "_", "%", "+", "-"})
      /\ \E dot \in (at + 2)..Len(s) :
           /\ Char(s, dot) = "."
           /\ AllIn(s, at + 1, dot - 1,
                    UpperChars \cup LowerChars \cup DigitChars \cup {".", "-"})
           /\ \E e \in (dot + 2)..Len(s) :
                /\ AllIn(s, dot + 1, e, UpperChars \cup LowerChars \cup {"|"})
                /\ IsBoundary(s, e + 1)

\* re.search of a literal prefix followed by [\w-]+
HasProfile(s, prefix) ==
    \E i \in 1..(Len(s) - Len(prefix)) :
      /\ SubSeq(s, i, i + Len(prefix) - 1) = prefix
      /\ Char(s, i + Len(prefix)) \in WordChars \cup {"-"}

calculate_contact_score(resume_text) ==
    RInt(Min({100,
              Plus(HasPhone(resume_text), 25)
              + Plus(HasEmail(resume_text), 25)
              + Plus(HasProfile(resume_text, "linkedin.com/in/"), 25)
              + Plus(HasProfile(resume_text, "github.com/"), 25)}))

section_headers == <<"experience", "education", "skills", "summary", "objective">>

\* The dates of calculate_section_score are the groups "19" and "20", so
\* max - min > 0 when a year of each century occurs.
calculate_section_score(resume_text) ==
    With(find_dates(resume_text), LAMBDA dates :
      RInt(Min({100,
                Min({Found(section_headers, Lower(resume_text)) * 15, 60})
                + Plus(Cardinality(DOMAIN dates) >= 2
                       /\ {dates[i] : i \in DOMAIN dates} = {19, 20}, 20)
                + Plus(Len(non_empty_lines(resume_text)) > 10, 20)})))

\* The five scores of a resume text; the first of them raises when the text
\* is no str.
detailed_scores(resume_text) ==
    IF ~IsStr(resume_text) THEN Raised
    ELSE Ret([formatting |-> calculate_formatting_score(resume_text),
              content |-> calculate_content_score(resume_text),
              keywords |-> calculate_keyword_score(resume_text),
              contact |-> calculate_contact_score(resume_text),
              sections |-> calculate_section_score(resume_text)])

INDUSTRY_BENCHMARKS ==
    [technology |-> [excellent |-> 85, good |-> 70, average |-> 55],
     finance |-> [excellent |-> 80, good |-> 65, average |-> 50],
     healthcare |-> [excellent |-> 82, good |-> 67, average |-> 52],
     education |-> [excellent |-> 78, good |-> 63, average |-> 48],
     marketing |-> [excellent |-> 80, good |-> 65, average |-> 50],
     default |-> [excellent |-> 80, good |-> 65, average |-> 50]]

generate_ats_suggestions(d) ==
    With((IF RLt(d.formatting, RInt(70))
          THEN <<"Improve resume formatting with consistent bullet points and clear section headers">>
          ELSE << >>)
         \o (IF RLt(d.content, RInt(70))
             THEN <<"Add missing sections like Experience, Education, and Skills">>
             ELSE << >>)
         \o (IF RLt(d.keywords, RInt(70))
             THEN <<"Include more action verbs and quantified achievements">>
             ELSE << >>)
         \o (IF RLt(d.contact, RInt(70))
             THEN <<"Add complete contact information including phone, email, and LinkedIn">>
             ELSE << >>)
         \o (IF RLt(d.sections, RInt(70))
             THEN <<"Organize content into clear sections with proper headers">>
             ELSE << >>), LAMBDA suggestions :
      IF suggestions = << >>
      THEN <<"Your resume has excellent ATS compatibility!">>
      ELSE suggestions)

\* The weighted sum with the weights of formatting and content exchanged.
ats_sum_swapped(d) ==
    RAdd(RAdd(RAdd(RAdd(RMul(d.formatting, Rat(30, 100)),
                        RMul(d.content, Rat(25, 100))),
                   RMul(d.keywords, Rat(20, 100))),
              RMul(d.contact, Rat(15, 100))),
         RMul(d.sections, Rat(10, 100)))

\* ats_score before rounding.
ats_sum(d) ==
    RAdd(RAdd(RAdd(RAdd(RMul(d.formatting, Rat(25, 100)),
                        RMul(d.content, Rat(30, 100))),
                   RMul(d.keywords, Rat(20, 100))),
              RMul(d.contact, Rat(15, 100))),
         RMul(d.sections, Rat(10, 100)))

\* round(x, digits) as the numbers of 1/scale it may give.  The float differs
\* from the exact value by far less than the distance of any value of the
\* model that is no tie to a tie, so away from a tie the nearest multiple is
\* returned; where the exact value is a decimal tie (12.95 for one digit) the
\* binary value lies on either side of it.
RoundNearest(x, scale) ==
    With(Rat(x.n * scale, x.d), LAMBDA y :
      With(RFloor(y), LAMBDA q :
        With(2 * (y.n - q * y.d), LAMBDA twiceRem :
          IF twiceRem < y.d THEN {q}
          ELSE IF twiceRem > y.d THEN {q + 1}
          ELSE {q, q + 1})))

\* round(x, 1), in tenths.
RoundTenths(x) == RoundNearest(x, 10)

ats_grade_of(ats_score, benchmarks) ==
    IF RLe(RInt(benchmarks.excellent), ats_score) THEN "Excellent"
    ELSE IF RLe(RInt(benchmarks.good), ats_score) THEN "Good"
    ELSE IF RLe(RInt(benchmarks.average), ats_score) THEN "Average"
    ELSE "Needs Improvement"

\* calculate_ats_score, given what the five score functions do for the text
\* (`detail`): the results it may return.
calculate_ats_score(detail, industry) ==
    IF detail.exc
    THEN {[ats_score |-> RInt(0), ats_grade |-> "Error",
           industry_benchmark |-> INDUSTRY_BENCHMARKS.default,
           detailed_scores |-> << >>, suggestions |-> <<"Error in ATS analysis">>,
           industry |-> industry, exc |-> TRUE]}
    ELSE With(ats_sum(detail.val), LAMBDA ats_score :
         With(IF industry \in DOMAIN INDUSTRY_BENCHMARKS
              THEN INDUSTRY_BENCHMARKS[industry]
              ELSE INDUSTRY_BENCHMARKS.default, LAMBDA benchmarks :
           {[ats_score |-> Rat(tenths, 10),
             ats_grade |-> ats_grade_of(ats_score, benchmarks),
             industry_benchmark |-> benchmarks,
             detailed_scores |-> detail.val,
             suggestions |-> generate_ats_suggestions(detail.val),
             industry |-> industry, exc |-> FALSE] :
               tenths \in RoundTenths(ats_score)}))

\* The resume texts of the model.
AtsTexts ==
    {"", "John Doe", NonStr, Bytes,
     "Call 555-123-4567 or mail jd@x.io",
     "SKILLS\nPython, SQL\n- led 3 projects in 2019\n- improved speed 30%\n",
     "Experience: work 2018-2022 at github.com/jd\nmanaged 5+ people, saved $40 and 2x",
     "Jane\n- a\n- b\n- c\n- d\n- e\nf\ng\nh\ni",
     "experience education skills summary projects saved python java 555-123-4567 a@b.co linkedin.com/in/x 2019 2021",
     "SUMMARY\n- Developed apps\n- Led team 1999\n- Managed 10%\nEDUCATION\n- BSc 2021\n- Built 5x\nSKILLS\n- Java\n- SQL $9\nPROJECTS\n(555) 123 4567 a.b@c.org\nlinkedin.com/in/j-d github.com/jd\nexperience certifications achievements",
     "summary objective experience education skills projects certifications achievements work\nachieved developed implemented managed led created designed built increased decreased improved reduced saved generated\npython java sql machine learning data analysis project management"}

AtsTable == {[resume_text |-> t, detail |-> detailed_scores(t)] : t \in AtsTexts}

Industries == DOMAIN INDUSTRY_BENCHMARKS \cup {"aerospace"}

\* A call of calculate_ats_score.
AtsScore ==
    /\ call = NoCall
    /\ \E in \in AtsTable, industry \in Industries :
         \E r \in calculate_ats_score(in.detail, industry) :
           call' = [op |-> "calculate_ats_score", resume_text |-> in.resume_text,
                    industry |-> industry, r |-> r]
    /\ UNCHANGED <<GROK_KEY, model_cache>>

AtsNext == AtsScore \/ Return

SpecAts == Init /\ [][AtsNext]_vars

-----------------------------------------------------------------------------
(* resume_comparator.py: compare_resumes *)

\* result.get(key, default)
GetField(result, key, default) ==
    IF key \in DOMAIN result THEN result[key] ELSE default

RECURSIVE RSum(_)
\* sum of a list of numbers
RSum(list) == IF list = << >> THEN RInt(0) ELSE RAdd(Head(list), RSum(Tail(list)))

\* sum(scores) / (len(scores) - 1) for more than one score.
score_mean_sample(scores) ==
    RMul(RSum(scores), Rat(1, IF Len(scores) > 1 THEN Len(scores) - 1 ELSE 1))

\* np.mean(scores)
score_mean(scores) == RMul(RSum(scores), Rat(1, Len(scores)))

RECURSIVE ISum(_)
ISum(list) == IF list = << >> THEN 0 ELSE Head(list) + ISum(Tail(list))

\* n * sum(X^2) - sum(X)^2 for the scores X in hundredths (a final_score has
\* two decimals): the variance times n^2 * 10^4.
SquaredDeviation(scores) ==
    With([i \in 1..Len(scores) |-> (scores[i].n * 100) \div scores[i].d], LAMBDA xs :
      Len(xs) * ISum([i \in 1..Len(xs) |-> xs[i] * xs[i]]) - ISum(xs) * ISum(xs))

\* np.std(scores) squared: the mean of the squared distances to the mean.
score_variance(scores) ==
    Rat(SquaredDeviation(scores), Len(scores) * Len(scores) * 10000)

RECURSIVE ISqrtIn(_, _, _)
\* The largest k in lo..hi with k * k <= m, by halves.
ISqrtIn(m, lo, hi) ==
    IF lo = hi THEN lo
    ELSE With((lo + hi + 1) \div 2, LAMBDA mid :
           IF mid * mid <= m THEN ISqrtIn(m, mid, hi) ELSE ISqrtIn(m, lo, mid - 1))

\* round(np.std(scores), 2) for scores in [0, 100]: the square root of the
\* variance to the nearest hundredth, floor(2 * 100 * std + 1) / 2 hundredths.
score_std_rounded(scores) ==
    Rat((ISqrtIn((4 * SquaredDeviation(scores)) \div (Len(scores) * Len(scores)),
                 0, 20000) + 1) \div 2, 100)

\* max(scores) and min(scores): the first of the greatest (smallest).
RMaxOf(scores) ==
    scores[Min({i \in 1..Len(scores) : \A j \in 1..Len(scores) : RLe(scores[j], scores[i])})]
RMinOf(scores) ==
    scores[Min({i \in 1..Len(scores) : \A j \in 1..Len(scores) : RLe(scores[i], scores[j])})]

RECURSIVE InsertBeforeEqual(_, _)
\* x into a list sorted by key, descending, before the entries with its key.
InsertBeforeEqual(list, x) ==
    IF list = << >> THEN <<x>>
    ELSE IF RLe(Head(list).key, x.key) THEN <<x>> \o list
    ELSE <<Head(list)>> \o InsertBeforeEqual(Tail(list), x)

RECURSIVE InsertDesc(_, _)
\* x into a list sorted by key, descending, behind the entries with its key.
InsertDesc(list, x) ==
    IF list = << >> THEN <<x>>
    ELSE IF RLt(Head(list).key, x.key) THEN <<x>> \o list
    ELSE <<Head(list)>> \o InsertDesc(Tail(list), x)

RECURSIVE SortedTiesReversed(_)
\* A descending sort that reverses the entries of equal key.
SortedTiesReversed(list) ==
    IF list = << >> THEN << >>
    ELSE InsertBeforeEqual(SortedTiesReversed(SubSeq(list, 1, Len(list) - 1)),
                           list[Len(list)])

RECURSIVE SortedDesc(_)
\* sorted(list, key=.., reverse=True) of entries [key, val]: descending by
\* key, entries of equal key in the order of the list (the sort is stable,
\* with reverse=True too).
SortedDesc(list) ==
    IF list = << >> THEN << >>
    ELSE InsertDesc(SortedDesc(SubSeq(list, 1, Len(list) - 1)), list[Len(list)])

\* The rankings with the ties in reverse order.
rankings_of_ties_reversed(resume_results) ==
    With(SortedTiesReversed([i \in 1..Len(resume_results) |->
            [key |-> GetField(resume_results[i], "final_score", RInt(0)),
             val |-> resume_results[i]]]), LAMBDA ranked_resumes :
      [i \in 1..Len(ranked_resumes) |->
         With(ranked_resumes[i].val, LAMBDA result :
           [rank |-> i,
            resume_file |-> GetField(result, "resume_file", "Unknown"),
            final_score |-> GetField(result, "final_score", RInt(0)),
            verdict |-> GetField(result, "verdict", "Unknown"),
            hard_pct |-> GetField(result, "hard_pct", RInt(0)),
            soft_pct |-> GetField(result, "soft_pct", RInt(0))])])

\* comparison['rankings']
rankings_of(resume_results) ==
    With(SortedDesc([i \in 1..Len(resume_results) |->
            [key |-> GetField(resume_results[i], "final_score", RInt(0)),
             val |-> resume_results[i]]]), LAMBDA ranked_resumes :
      [i \in 1..Len(ranked_resumes) |->
         With(ranked_resumes[i].val, LAMBDA result :
           [rank |-> i,
            resume_file |-> GetField(result, "resume_file", "Unknown"),
            final_score |-> GetField(result, "final_score", RInt(0)),
            verdict |-> GetField(result, "verdict", "Unknown"),
            hard_pct |-> GetField(result, "hard_pct", RInt(0)),
            soft_pct |-> GetField(result, "soft_pct", RInt(0))])])

\* list.count(x)
CountOf(list, x) == Cardinality({i \in 1..Len(list) : list[i] = x})

\* {verdict: verdicts.count(verdict) for verdict in set(verdicts)}
verdict_distribution_of(verdicts) ==
    [verdict \in Range(verdicts) |-> CountOf(verdicts, verdict)]

RECURSIVE Concat(_)
\* all_missing_skills after every extend
Concat(lists) == IF lists = << >> THEN << >> ELSE Head(lists) \o Concat(Tail(lists))

all_missing_of(resume_results) ==
    Concat([i \in 1..Len(resume_results) |->
              GetField(resume_results[i], "missing_skills", << >>)])

\* sorted(skill_counts.items(), key=lambda x: x[1], reverse=True)[:10]; the
\* items of the dict are in the order of the first occurrence.
common_missing_skills_of(all_missing) ==
    With(AppendNew(<< >>, all_missing), LAMBDA skills :
      With(SortedDesc([i \in 1..Len(skills) |->
              [key |-> RInt(CountOf(all_missing, skills[i])), val |-> skills[i]]]),
           LAMBDA items :
        Take([i \in 1..Len(items) |-> <<items[i].val, items[i].key.n>>], 10)))

\* generate_comparison_insights, up to the most common missing skill.
score_insights(scores) ==
    With(Cardinality({i \in 1..Len(scores) : RLe(RInt(75), scores[i])}), LAMBDA high :
    With(Cardinality({i \in 1..Len(scores) : RLt(scores[i], RInt(45))}), LAMBDA low :
    With(score_variance(scores), LAMBDA var :
      (IF 10 * high > 3 * Len(scores)
       THEN <<"Strong candidate pool: " \o ToString(high) \o " resumes scored 75+">>
       ELSE IF high = 0
       THEN <<"No high-scoring candidates found - consider revising job requirements">>
       ELSE << >>)
      \o (IF 2 * low > Len(scores)
          THEN <<"Many candidates need improvement: " \o ToString(low) \o " scored below 45">>
          ELSE << >>)
      \o (IF RLt(var, RInt(100))
          THEN <<"Low score variance - candidates are similarly qualified">>
          ELSE IF RLt(RInt(625), var)
          THEN <<"High score variance - significant differences in candidate quality">>
          ELSE << >>))))

\* generate_comparison_insights: max(set(all_missing), key=all_missing.count)
\* is the first skill of greatest count in the order of the set, which
\* depends on the hash seed of the process: any of those skills.
generate_comparison_insights(scores, all_missing) ==
    IF all_missing = << >> THEN {score_insights(scores)}
    ELSE {Append(score_insights(scores), "Most common missing skill: " \o common_missing) :
            common_missing \in
              {s \in Range(all_missing) :
                 \A t \in Range(all_missing) : CountOf(all_missing, t) <= CountOf(all_missing, s)}}

generate_comparison_recommendations(scores, verdicts, all_missing) ==
    With(RMaxOf(scores), LAMBDA top_score :
      (IF RLe(RInt(80), top_score)
       THEN <<"Consider the top candidate for immediate interview">>
       ELSE IF RLe(RInt(60), top_score)
       THEN <<"Top candidate shows promise - schedule interview">>
       ELSE <<"Consider revising job requirements or candidate criteria">>)
      \o (IF Cardinality(Range(all_missing)) > 5
          THEN <<"Consider providing training for common missing skills">>
          ELSE << >>)
      \o (IF 5 * CountOf(verdicts, "High") < Len(verdicts)
          THEN <<"Consider expanding candidate search or adjusting requirements">>
          ELSE << >>))

\* compare_resumes: the dicts it may return (one, but for the rounding of a
\* mean that is a decimal tie and the choice of the most common missing
\* skill); {} for an empty batch and from the except branch, which is entered
\* when jd_text has no len() or a final_score is no number.  `now` is
\* datetime.now().isoformat().
compare_resumes(resume_results, jd_text, now) ==
    IF resume_results = << >> THEN {EmptyDict}
    ELSE IF jd_text = NonStr THEN {EmptyDict}
    ELSE With([i \in 1..Len(resume_results) |->
                 GetField(resume_results[i], "final_score", RInt(0))], LAMBDA scores :
      IF \E i \in 1..Len(scores) : ~IsNumber(scores[i]) THEN {EmptyDict}
      ELSE
      With([i \in 1..Len(resume_results) |->
              GetField(resume_results[i], "verdict", "Unknown")], LAMBDA verdicts :
      With(all_missing_of(resume_results), LAMBDA all_missing :
        {[total_resumes |-> Len(resume_results),
          comparison_date |-> now,
          job_description |-> IF Len(jd_text) > 200 THEN Take(jd_text, 200) \o "..."
                              ELSE jd_text,
          score_analysis |->
            [average_score |-> Rat(average, 100),
             highest_score |-> RMaxOf(scores),
             lowest_score |-> RMinOf(scores),
             score_std |-> score_std_rounded(scores),
             score_range |-> RAdd(RMaxOf(scores), RMul(RInt(0 - 1), RMinOf(scores)))],
          rankings |-> rankings_of(resume_results),
          verdict_distribution |-> verdict_distribution_of(verdicts),
          insights |-> insights,
          recommendations |->
            generate_comparison_recommendations(scores, verdicts, all_missing)]
         @@ (IF all_missing = << >> THEN EmptyDict
             ELSE [common_missing_skills |-> common_missing_skills_of(all_missing)]) :
            average \in RoundNearest(score_mean(scores), 100),
            insights \in generate_comparison_insights(scores, all_missing)})))

\* The analysis records of the model: the two of test_resume_comparator, one
\* with the final score of the second, a low one, one whose final_score is
\* None and one that has only its file name.
AnalysisRecord(file, final_score, verdict, hard_pct, soft_pct, missing_skills) ==
    [resume_file |-> file, final_score |-> final_score, verdict |-> verdict,
     hard_pct |-> hard_pct, soft_pct |-> soft_pct, missing_skills |-> missing_skills]
CompareRecords ==
    {AnalysisRecord("resume1.pdf", RInt(85), "High", RInt(80), RInt(90), <<"AWS", "Docker">>),
     AnalysisRecord("resume2.pdf", RInt(65), "Medium", RInt(70), RInt(60),
                    <<"Python", "Machine Learning">>),
     AnalysisRecord("resume3.pdf", RInt(65), "Medium", RInt(60), Rat(145, 2), <<"AWS">>),
     AnalysisRecord("resume4.pdf", Rat(3033, 100), "Low", RInt(20), Rat(4583, 100), << >>),
     AnalysisRecord("resume5.pdf", NotANumber, "Low", RInt(0), RInt(0), << >>),
     [resume_file |-> "resume6.pdf"]}

\* The greatest number of resumes of a batch.
MaxBatch == 3

Batches == UNION {[1..n -> CompareRecords] : n \in 0..MaxBatch}

\* A call of compare_resumes.
Compare ==
    /\ call = NoCall
    /\ \E resume_results \in Batches,
          jd_text \in {"Python developer with ML experience", NonStr} :
         \E r \in compare_resumes(resume_results, jd_text, "2025-01-01T00:00:00") :
           call' = [op |-> "compare_resumes", resume_results |-> resume_results,
                    jd_text |-> jd_text, r |-> r]
    /\ UNCHANGED <<GROK_KEY, model_cache>>

CompareNext == Compare \/ Return

SpecCompare == Init /\ [][CompareNext]_vars

-----------------------------------------------------------------------------
(* parser.py: extract_text_from_file; streamlit_app.py and                 *)
(* final_dashboard.py: the batch loop over the uploaded resumes            *)

\* An uploaded file: its name, the text of its pages or paragraphs, and the
\* libraries that can open its bytes (fitz, pdfplumber, docx).
UploadedFile(name, text, readers) ==
    [name |-> name, text |-> text, readers |-> readers]

RECURSIVE LastDot(_, _)
\* The position of the last "." of name[1..i], or 0.
LastDot(name, i) ==
    IF i = 0 THEN 0
    ELSE IF Char(name, i) = "." THEN i
    ELSE LastDot(name, i - 1)

\* Path(file_name).suffix.lower()
suffix_lower(file_name) ==
    With(LastDot(file_name, Len(file_name)), LAMBDA dot :
      IF dot <= 1 \/ dot = Len(file_name) THEN ""
      ELSE Lower(SubSeq(file_name, dot, Len(file_name))))

\* Path(file_name).stem
stem(file_name) ==
    With(LastDot(file_name, Len(file_name)), LAMBDA dot :
      IF dot <= 1 \/ dot = Len(file_name) THEN file_name
      ELSE SubSeq(file_name, 1, dot - 1))

\* extract_from_pdf: PyMuPDF, then pdfplumber, then ValueError.
extract_from_pdf(file) ==
    IF "fitz" \in file.readers THEN Ret(file.text)
    ELSE IF "pdfplumber" \in file.readers THEN Ret(file.text)
    ELSE Raised

\* extract_from_docx: python-docx, or ValueError.
extract_from_docx(file) ==
    IF "docx" \in file.readers THEN Ret(file.text) ELSE Raised

RECURSIVE CollapseSpaces(_, _)
\* re.sub(r'\s+', ' ', text), from character i on.
CollapseSpaces(text, i) ==
    IF i > Len(text) THEN ""
    ELSE IF IsSpace(Char(text, i))
    THEN (IF i > 1 /\ IsSpace(Char(text, i - 1)) THEN "" ELSE " ")
         \o CollapseSpaces(text, i + 1)
    ELSE Char(text, i) \o CollapseSpaces(text, i + 1)

\* The punctuation that the second substitution of clean_text keeps (and
\* the backquote, which no text of the model holds).
KeptPunctuation ==
    {".", ",", ";", ":", "!", "?", "-", "(", ")", "[", "]", "{",
     "}", "\"", "'", "/", "@", "#", "$", "%", "&", "*", "+", "=", "<", ">", "|", "~"}

RECURSIVE RemoveSpecial(_, _)
\* The second re.sub of clean_text, from character i on: a character that
\* is no word character, no whitespace and no kept punctuation is removed.
RemoveSpecial(text, i) ==
    IF i > Len(text) THEN ""
    ELSE (IF \/ IsWordChar(Char(text, i))
             \/ IsSpace(Char(text, i))
             \/ Char(text, i) \in KeptPunctuation
          THEN Char(text, i) ELSE "")
         \o RemoveSpecial(text, i + 1)

\* clean_text.  After the first substitution the text has no newline, so
\* text.split('\n') gives one line: it is dropped when it is a number or a
\* short upper-case word.
clean_text(text) ==
    IF text = "" THEN ""
    ELSE With(Strip(RemoveSpecial(CollapseSpaces(text, 1), 1)), LAMBDA line :
           IF line = "" THEN ""
           ELSE IF \A i \in 1..Len(line) : Char(line, i) \in DigitChars THEN ""
           ELSE IF /\ Len(line) < 3
                   /\ \E i \in 1..Len(line) : IsCased(Char(line, i))
                   /\ \A i \in 1..Len(line) : IsCased(Char(line, i)) => IsUpper(Char(line, i))
                THEN ""
           ELSE line)

\* extract_text_from_file of an uploaded file: the cleaned text, or Raised
\* (ValueError for another file type or for bytes that no library opens).
extract_text_from_file(file) ==
    With(suffix_lower(file.name), LAMBDA file_extension :
      With(IF file_extension = ".pdf" THEN extract_from_pdf(file)
           ELSE IF file_extension \in {".docx", ".doc"} THEN extract_from_docx(file)
           ELSE Raised,
           LAMBDA text : IF text.exc THEN Raised ELSE Ret(clean_text(text.val))))

\* The dict `result` that one pass of the loop builds from the score result
\* and the feedback, in each of the two drivers.
analysis_result(driver, file_name, resume_text, score_result, feedback) ==
    IF driver = "streamlit_app"
    THEN [resume_file |-> file_name,
          hard_pct |-> GetField(score_result, "hard_pct", RInt(0)),
          soft_pct |-> GetField(score_result, "soft_pct", RInt(0)),
          final_score |-> GetField(score_result, "final_score", RInt(0)),
          verdict |-> GetField(score_result, "verdict", "Low"),
          missing_skills |-> GetField(score_result, "missing_skills", << >>),
          grok_feedback |-> feedback,
          resume_text |-> IF Len(resume_text) > 500
                          THEN SubSeq(resume_text, 1, 500) \o "..."
                          ELSE resume_text]
    ELSE [resume_file |-> file_name,
          resume_text |-> resume_text,
          hard_pct |-> GetField(score_result, "hard_match_percentage", RInt(0)),
          soft_pct |-> GetField(score_result, "soft_match_percentage", RInt(0)),
          final_score |-> GetField(score_result, "final_score", RInt(0)),
          verdict |-> GetField(score_result, "verdict", "Unknown"),
          missing_skills |-> GetField(score_result, "missing_skills", << >>),
          feedback |-> feedback]

\* What the branch of the analysis mode adds to the result.
mode_fields(analysis_mode, ats_result) ==
    IF analysis_mode = "ATS Score Analysis"
    THEN [ats_score |-> GetField(ats_result, "ats_score", RInt(0)),
          ats_grade |-> GetField(ats_result, "ats_grade", "Unknown"),
          ats_suggestions |-> GetField(ats_result, "suggestions", << >>)]
    ELSE EmptyDict

\* The loop after a pass that leaves the loop at the first error.
loop_pass_break_on_error(c, outcome) ==
    IF outcome.exc
    THEN [c EXCEPT !.errors = Append(@, c.resume_files[c.i].name),
                   !.i = Len(c.resume_files) + 1]
    ELSE [c EXCEPT !.results = Append(@, outcome.val.result),
                   !.score_results = Append(@, outcome.val.score_result),
                   !.i = @ + 1]

\* The loop after one pass of its body for resume i: the result is appended
\* to st.session_state.results, or st.error reports the file when the body
\* raised; the loop goes on with the next file.
loop_pass(c, outcome) ==
    IF outcome.exc
    THEN [c EXCEPT !.errors = Append(@, c.resume_files[c.i].name),
                   !.i = @ + 1]
    ELSE [c EXCEPT !.results = Append(@, outcome.val.result),
                   !.score_results = Append(@, outcome.val.score_result),
                   !.i = @ + 1]

\* The files that a user uploads: a PDF with line breaks and a character
\* that clean_text removes, a DOCX, a text file (another type), a PDF that no
\* library opens, and a scanned PDF whose only text is a page number.
UploadedFiles ==
    {UploadedFile("alice.pdf", "5 years  Python,\nSQL expert^", {"fitz", "pdfplumber"}),
     UploadedFile("bob.DOCX", "5 years Python expert", {"docx"}),
     UploadedFile("carol.txt", "Python", {}),
     UploadedFile("dave.pdf", "", {}),
     UploadedFile("erin.pdf", "42", {"pdfplumber"})}

\* The most files of one upload.
MaxFiles == 3

FileBatches == UNION {[1..n -> UploadedFiles] : n \in 1..MaxFiles}

\* The job description of the session and the requirement extracted from it.
SessionJdText == SessionText
SessionJdSkills == Req(<<"Python", "SQL">>, <<"AWS">>)

\* For each file what extract_text_from_file gives and, for its text, what
\* calculate_hard_match_score, find_missing_skills and calculate_ats_score
\* return.
BatchRows ==
    {With(extract_text_from_file(file), LAMBDA text :
       With(IF text.exc THEN "" ELSE text.val, LAMBDA resume_text :
         [file |-> file, text |-> text,
          hard |-> calculate_hard_match_score(resume_text, SessionJdSkills),
          missing |-> find_missing_skills(resume_text, SessionJdSkills),
          ats |-> calculate_ats_score(detailed_scores(resume_text), "default")])) :
       file \in UploadedFiles}

\* The soft scores of the batch model.
BatchSoftResults(jd_text, resume_text) ==
    {soft \in SoftResults(jd_text, resume_text) : soft.val \in {RInt(0), RInt(80)}}

\* The course of generate_ai_feedback in the batch model: the first endpoint
\* answers.
BatchFeedbackEnv ==
    [grok_import_ok |-> TRUE,
     responses |-> <<GenOk(TextPlain("Add a 2-week Kaggle project.")), ApiNotOk, ApiNotOk>>]

AnalysisModes == {"Standard Analysis", "ATS Score Analysis"}
Drivers == {"streamlit_app", "final_dashboard"}

\* The button handler calls the loop: the session has a job description and
\* at least one file is uploaded; the results of the session are emptied.
ProcessResumes ==
    /\ call = NoCall
    /\ \E driver \in Drivers, resume_files \in FileBatches,
          analysis_mode \in AnalysisModes :
         call' = [op |-> "process_resumes", driver |-> driver,
                  resume_files |-> resume_files, analysis_mode |-> analysis_mode,
                  industry |-> "default",
                  hard_weight |-> Tenths(6), soft_weight |-> Tenths(4),
                  jd_text |-> SessionJdText, jd_skills |-> SessionJdSkills,
                  i |-> 1, results |-> << >>, score_results |-> << >>,
                  errors |-> << >>, extracted_texts |-> {}, pc |-> "loop"]
    /\ UNCHANGED <<GROK_KEY, model_cache>>

\* One pass of the loop body for resume_files[i].
ProcessOne ==
    /\ call.op = "process_resumes"
    /\ call.pc = "loop"
    /\ call.i <= Len(call.resume_files)
    /\ \E row \in BatchRows :
         /\ row.file = call.resume_files[call.i]
         /\ IF row.text.exc
            THEN /\ call' = loop_pass(call, Raised)
                 /\ UNCHANGED model_cache
            ELSE \E soft \in BatchSoftResults(call.jd_text, row.text.val), ats_result \in row.ats :
                 \E score \in {calculate_relevance_score(call.hard_weight, call.soft_weight,
                                                           row.hard, soft, row.missing)} :
                 \E feedback \in {generate_feedback(
                                     generate_ai_feedback(KeyValid(GROK_KEY), BatchFeedbackEnv,
                                                          score.result.missing_skills),
                                     score.result.missing_skills)} :
                   /\ call' =
                        [loop_pass(call,
                           IF feedback.raised THEN Raised
                           ELSE Ret([result |->
                                       analysis_result(call.driver, row.file.name, row.text.val,
                                                       score.result, feedback.val)
                                       @@ mode_fields(call.analysis_mode, ats_result),
                                     score_result |-> score.result]))
                         EXCEPT !.extracted_texts =
                                  IF row.text.val = "" THEN @
                                  ELSE @ \cup {stem(row.file.name)}]
                   /\ model_cache' = soft.cache
    /\ UNCHANGED GROK_KEY

\* After the last file the results are saved and shown.
ProcessFinish ==
    /\ call.op = "process_resumes"
    /\ call.pc = "loop"
    /\ call.i > Len(call.resume_files)
    /\ call' = [call EXCEPT !.pc = "done"]
    /\ UNCHANGED <<GROK_KEY, model_cache>>

BatchNext == ProcessResumes \/ ProcessOne \/ ProcessFinish \/ Return

SpecBatch == Init /\ [][BatchNext]_vars

-----------------------------------------------------------------------------
(* performance_predictor.py: calculate_base_performance_score *)

\* The weights of SUCCESS_FACTORS; the lists high_impact and medium_impact
\* of each table are not read by calculate_base_performance_score.
SUCCESS_FACTORS ==
    [technology |-> [experience_weight |-> Rat(4, 10), skills_weight |-> Rat(3, 10),
                     projects_weight |-> Rat(2, 10), education_weight |-> Rat(1, 10)],
     finance |-> [experience_weight |-> Rat(5, 10), skills_weight |-> Rat(25, 100),
                  certifications_weight |-> Rat(15, 100),
                  education_weight |-> Rat(1, 10)],
     marketing |-> [experience_weight |-> Rat(4, 10), skills_weight |-> Rat(3, 10),
                    portfolio_weight |-> Rat(2, 10), education_weight |-> Rat(1, 10)],
     default |-> [experience_weight |-> Rat(4, 10), skills_weight |-> Rat(3, 10),
                  achievements_weight |-> Rat(2, 10), education_weight |-> Rat(1, 10)]]

\* SUCCESS_FACTORS.get(industry, SUCCESS_FACTORS['default'])
factors_of(industry) ==
    IF industry \in DOMAIN SUCCESS_FACTORS THEN SUCCESS_FACTORS[industry]
    ELSE SUCCESS_FACTORS.default

\* estimate_projects_score, estimate_education_score and
\* estimate_certifications_score: a score for each tier of final_score.
TierScore(resume_analysis, high, medium, low) ==
    With(GetField(resume_analysis, "final_score", RInt(0)), LAMBDA final_score :
      IF RLe(RInt(80), final_score) THEN RInt(high)
      ELSE IF RLe(RInt(60), final_score) THEN RInt(medium)
      ELSE RInt(low))
estimate_projects_score(resume_analysis) == TierScore(resume_analysis, 85, 70, 50)
estimate_education_score(resume_analysis) == TierScore(resume_analysis, 90, 75, 60)
estimate_certifications_score(resume_analysis) == TierScore(resume_analysis, 80, 65, 50)

\* A term of the sum of calculate_base_performance_score.
Term(name, score, weight) == [name |-> name, score |-> score, weight |-> weight]

\* score += projects_score * factors.get('projects_weight', 0.2)
projects_term(resume_analysis, factors) ==
    Term("projects", estimate_projects_score(resume_analysis),
         GetField(factors, "projects_weight", Rat(2, 10)))

\* The terms that calculate_base_performance_score adds up, in its order.
applied_terms(resume_analysis, factors) ==
    <<Term("experience",
           RMin(GetField(resume_analysis, "hard_pct", RInt(0)), RInt(100)),
           factors.experience_weight),
      Term("skills",
           RMin(GetField(resume_analysis, "soft_pct", RInt(0)), RInt(100)),
           factors.skills_weight),
      projects_term(resume_analysis, factors),
      Term("education", estimate_education_score(resume_analysis),
           factors.education_weight)>>
    \o (IF "certifications_weight" \in DOMAIN factors
        THEN <<Term("certifications", estimate_certifications_score(resume_analysis),
                    factors.certifications_weight)>>
        ELSE << >>)

\* calculate_base_performance_score: min(score, 100).
calculate_base_performance_score(resume_analysis, factors) ==
    With(applied_terms(resume_analysis, factors), LAMBDA terms :
      RMin(RSum([k \in 1..Len(terms) |-> RMul(terms[k].score, terms[k].weight)]),
           RInt(100)))

\* The score results that the prediction is made for; {} has no key.
ResumeAnalyses ==
    {EmptyDict}
    \cup {[hard_pct |-> RInt(hard), soft_pct |-> RInt(soft),
           final_score |-> Rat(final, 100)] :
             hard \in {0, 35, 70, 100}, soft \in {0, 80, 100},
             final \in {0, 5999, 6000, 7999, 8000, 10000}}

PredictIndustries == DOMAIN SUCCESS_FACTORS \cup {"aerospace"}

\* What calculate_base_performance_score does for each score result and
\* industry of the model.
BaseScoreTable ==
    {[resume_analysis |-> a, industry |-> industry,
      terms |-> applied_terms(a, factors_of(industry)),
      r |-> calculate_base_performance_score(a, factors_of(industry))] :
        a \in ResumeAnalyses, industry \in PredictIndustries}

\* A call of calculate_base_performance_score with the table of the
\* industry, as predict_performance makes it.  The record keeps the terms
\* that were added up.
BasePerformanceScore ==
    /\ call = NoCall
    /\ \E row \in BaseScoreTable :
         call' = [op |-> "calculate_base_performance_score",
                  resume_analysis |-> row.resume_analysis,
                  industry |-> row.industry, terms |-> row.terms, r |-> row.r]
    /\ UNCHANGED <<GROK_KEY, model_cache>>

PredictNext == BasePerformanceScore \/ Return

SpecPredict == Init /\ [][PredictNext]_vars

-----------------------------------------------------------------------------
(* embeddings.py: threads of one process in                                *)
(* get_sentence_transformer_embeddings.  The module keeps no lock: between *)
(* the test `model_name not in _model_cache` of one thread and its         *)
(* assignment to _model_cache[model_name] any other thread may run.        *)

\* The largest number of threads of the process that call the function.
MaxThreads == 2
\* The largest number of calls the threads make, one after another or at
\* the same time.
MaxLocalCalls == 3

Threads == 1 .. MaxThreads

\* A thread that is not in the function.
IdleThread == [pc |-> "idle"]

\* Thread t at pc inside a call for model_name: `hit` says that its test
\* found the name in the cache, `constructed` that it has called
\* SentenceTransformer(model_name) and stored what it returned.
InCall(pc, model_name, hit, constructed) ==
    [pc |-> pc, model_name |-> model_name, hit |-> hit, constructed |-> constructed]

\* Thread t has returned the vectors of `tier`.
Returned(thread, tier) == [thread EXCEPT !.pc = "done"] @@ [tier |-> tier]

IsLocal == call.op = "get_sentence_transformer_embeddings"

\* The threads of the process before any of them has called the function:
\* cache0 is the cache at that time, loads[name] counts the constructions of
\* the model `name` that were stored since.
NoThreads ==
    [op |-> "get_sentence_transformer_embeddings",
     threads |-> [t \in Threads |-> IdleThread],
     cache0 |-> model_cache,
     loads |-> [name \in ModelNames |-> 0],
     calls |-> 0]

\* Thread t calls the function: the import of sentence_transformers raises
\* ImportError and the TF-IDF vectors are returned, or the thread goes on to
\* the test of the cache.
LocalCall(t) ==
    /\ call = NoCall \/ (IsLocal /\ call.threads[t].pc \in {"idle", "done"}
                                /\ call.calls < MaxLocalCalls)
    /\ \E model_name \in ModelNames, st_import_ok \in BOOLEAN :
         \E c \in {IF call = NoCall THEN NoThreads ELSE call},
            thread \in {InCall("check", model_name, FALSE, FALSE)} :
           call' = [c EXCEPT !.calls = @ + 1,
                             !.threads[t] = IF st_import_ok THEN thread
                                            ELSE Returned(thread, "tfidf")]
    /\ UNCHANGED <<GROK_KEY, model_cache>>

\* `if model_name not in _model_cache`.
LocalCheck(t) ==
    /\ IsLocal
    /\ call.threads[t].pc = "check"
    /\ call' = [call EXCEPT !.threads[t] =
                    IF @.model_name \in model_cache
                    THEN [@ EXCEPT !.pc = "encode", !.hit = TRUE]
                    ELSE [@ EXCEPT !.pc = "construct"]]
    /\ UNCHANGED <<GROK_KEY, model_cache>>

\* `_model_cache[model_name] = SentenceTransformer(model_name)`: the
\* constructor raises and the TF-IDF vectors are returned, or the model is
\* stored in the cache.
LocalConstruct(t) ==
    /\ IsLocal
    /\ call.threads[t].pc = "construct"
    /\ \E st_load_ok \in BOOLEAN :
         IF st_load_ok
         THEN /\ model_cache' = model_cache \cup {call.threads[t].model_name}
              /\ call' = [call EXCEPT
                             !.loads[call.threads[t].model_name] = @ + 1,
                             !.threads[t] = [@ EXCEPT !.pc = "encode",
                                                      !.constructed = TRUE]]
         ELSE /\ call' = [call EXCEPT !.threads[t] = Returned(@, "tfidf")]
              /\ UNCHANGED model_cache
    /\ UNCHANGED GROK_KEY

\* `model = _model_cache[model_name]; model.encode(texts)`: the vectors of
\* the model are returned, or encode raises and the TF-IDF vectors are.
LocalEncode(t) ==
    /\ IsLocal
    /\ call.threads[t].pc = "encode"
    /\ \E st_encode_ok \in BOOLEAN :
         call' = [call EXCEPT !.threads[t] =
                     Returned(@, IF st_encode_ok THEN "local" ELSE "tfidf")]
    /\ UNCHANGED <<GROK_KEY, model_cache>>

LocalNext ==
    \/ \E t \in Threads : LocalCall(t)
    \/ \E t \in Threads : LocalCheck(t)
    \/ \E t \in Threads : LocalConstruct(t)
    \/ \E t \in Threads : LocalEncode(t)
    \/ Return

SpecLocal == Init /\ [][LocalNext]_vars

-----------------------------------------------------------------------------
(* The whole program: any call of the modules *)

Next == ScoreNext \/ ExtractNext \/ EmbedNext \/ FeedbackNext \/ ClientNext
        \/ AtsNext \/ CompareNext \/ BatchNext \/ PredictNext \/ LocalNext

Spec == Init /\ [][Next]_vars

-----------------------------------------------------------------------------
(* Properties of scoring (SpecScore) *)

IsScore == call.op = "calculate_relevance_score"
NoException(exc) == ~exc.hard /\ ~exc.soft /\ ~exc.final /\ ~exc.missing

\* x is y rounded to two decimals as round() does it: the multiple of 0.01
\* nearest to y, the even one of the two when y lies half-way.
IsRoundedTo2(x, y) ==
    LET h == RMul(y, RInt(100))
        f == RFloor(h)
    IN  \E k \in {f, f + 1} :
            LET twice == Abs(2 * (h.n - k * h.d))
            IN  /\ REq(x, Rat(k, 100))
                /\ twice <= h.d
                /\ twice = h.d => k % 2 = 0

WeightedSum(result) ==
    RAdd(RMul(result.hard_weight, result.hard_pct),
         RMul(result.soft_weight, result.soft_pct))

WeightsSumToOne(result) ==
    /\ IsNumber(result.hard_weight) /\ IsNumber(result.soft_weight)
    /\ REq(RAdd(result.hard_weight, result.soft_weight), RInt(1))

\* C1: every call of calculate_relevance_score that completes without an
\* internal exception and with hard_weight + soft_weight = 1 returns a
\* final_score equal to round(hard_weight*hard_pct + soft_weight*soft_pct, 2),
\* computed from the hard_pct and soft_pct of the same result.
C1_FinalScoreIsWeightedSum ==
    (IsScore /\ NoException(call.exc) /\ WeightsSumToOne(call.result))
        => IsRoundedTo2(call.result.final_score, WeightedSum(call.result))

\* A call without exception, with both weights and both scores positive,
\* whose weighted sum has more than two decimals.
C1_Witness ==
    /\ IsScore /\ NoException(call.exc) /\ WeightsSumToOne(call.result)
    /\ RLt(RInt(0), call.result.hard_weight) /\ RLt(RInt(0), call.result.soft_weight)
    /\ RLt(RInt(0), call.result.hard_pct) /\ RLt(RInt(0), call.result.soft_pct)
    /\ ~REq(call.result.final_score, WeightedSum(call.result))

\* The verdict that belongs to a score: High from 75, Medium from 45 to
\* below 75, Low below 45.
VerdictOf(score) ==
    IF score.n >= 75 * score.d THEN "High"
    ELSE IF score.n >= 45 * score.d THEN "Medium"
    ELSE "Low"

\* C2: in every result that calculate_relevance_score returns, the
\* error-default result included, the verdict is High iff final_score >= 75,
\* Medium iff 45 <= final_score < 75, Low iff final_score < 45.
C2_VerdictFollowsFinalScore ==
    IsScore => call.result.verdict = VerdictOf(call.result.final_score)

\* A result with final_score exactly 75.0 and the verdict High.
C2_Witness ==
    /\ IsScore
    /\ REq(call.result.final_score, RInt(75))
    /\ call.result.verdict = "High"

\* The entries of a requirement list, lower-cased, that no skill of the
\* resume equals case-insensitively, in the order of the list.
Unmatched(list, resume_skills) ==
    LET lowered == {Lower(s) : s \in resume_skills}
    IN  SelectSeq([i \in 1..Len(list) |-> Lower(list[i])],
                  LAMBDA x : x \notin lowered)

\* missing_skills is at most 5 long, and it is a run of the unmatched
\* must_have entries followed by a run of the unmatched good_to_have entries.
MustHaveGapsFirst(missing_skills, jd_skills, resume_skills) ==
    /\ Len(missing_skills) <= 5
    /\ \E k \in 0..Len(missing_skills) :
          /\ IsPrefix(SubSeq(missing_skills, 1, k),
                      Unmatched(Get(jd_skills, "must_have"), resume_skills))
          /\ IsPrefix(SubSeq(missing_skills, k + 1, Len(missing_skills)),
                      Unmatched(Get(jd_skills, "good_to_have"), resume_skills))

\* The missing_skills list that the call returned.
ReturnedMissingSkills ==
    IF IsScore THEN call.result.missing_skills ELSE call.result

\* C3: for every resume text and every skill requirement, the missing_skills
\* list returned by find_missing_skills and by calculate_relevance_score has
\* at most 5 entries, and every unmatched must_have entry in it precedes
\* every unmatched good_to_have entry.
C3_MissingSkillsBounded ==
    (IsScore \/ call.op = "find_missing_skills") =>
        /\ Len(ReturnedMissingSkills) <= 5
        /\ ReturnedMissingSkills # << >> =>
              MustHaveGapsFirst(ReturnedMissingSkills, call.jd_skills,
                                call.resume_skills.val)

\* find_missing_skills returned 5 entries, must_have gaps and good_to_have
\* gaps among them, and left gaps out.
C3_Witness ==
    /\ call.op = "find_missing_skills"
    /\ Len(call.result) = 5
    /\ LET must == Unmatched(Get(call.jd_skills, "must_have"), call.resume_skills.val)
           good == Unmatched(Get(call.jd_skills, "good_to_have"), call.resume_skills.val)
       IN  /\ must # << >> /\ Len(must) < 5
           /\ Len(must) + Len(good) > 5

\* The number of entries of a requirement list that a skill of the resume
\* equals case-insensitively, divided by the length of the list; 0 for an
\* empty list.
CoverageOf(list, resume_skills) ==
    IF Len(list) = 0 THEN RInt(0)
    ELSE Rat(Cardinality({i \in 1..Len(list) :
                            \E s \in resume_skills : Lower(s) = Lower(list[i])}),
             Len(list))

\* 100 * (0.7 * must_have_coverage + 0.3 * good_to_have_coverage)
HardPctOf(jd_skills, resume_skills) ==
    RMul(RInt(100),
         RAdd(RMul(Rat(7, 10), CoverageOf(Get(jd_skills, "must_have"), resume_skills)),
              RMul(Rat(3, 10), CoverageOf(Get(jd_skills, "good_to_have"), resume_skills))))

\* A resume text that is a non-empty str and a non-empty requirement whose
\* lists hold str entries only.
WellTyped(resume_text, jd_skills) ==
    /\ IsStr(resume_text) /\ resume_text # ""
    /\ DOMAIN jd_skills # {}
    /\ \A key \in DOMAIN jd_skills :
          \A i \in 1..Len(jd_skills[key]) : IsStr(jd_skills[key][i])

\* C4: for a non-empty resume and requirement, calculate_hard_match_score
\* returns 100*(0.7*must_have_coverage + 0.3*good_to_have_coverage), a value
\* of [0,100], where a coverage is the number of entries of the list that
\* the skill set extracted from the resume matches case-insensitively,
\* divided by the length of the list, and 0 for an empty list; must_have
\* [Python, SQL], good_to_have [AWS] and a resume with Python only give 35.0.
C4_HardPctFormula ==
    (call.op = "calculate_hard_match_score"
        /\ WellTyped(call.resume_text, call.jd_skills)) =>
        /\ REq(call.result, HardPctOf(call.jd_skills, call.resume_skills.val))
        /\ RLe(RInt(0), call.result) /\ RLe(call.result, RInt(100))
        /\ (call.jd_skills = Req(<<"Python", "SQL">>, <<"AWS">>)
                /\ call.resume_skills.val = {"Python"}) => REq(call.result, RInt(35))

\* The example of the claim: only Python of [Python, SQL] and [AWS] is in
\* the resume.
C4_Witness ==
    /\ call.op = "calculate_hard_match_score"
    /\ call.jd_skills = Req(<<"Python", "SQL">>, <<"AWS">>)
    /\ call.resume_text = "Python"
    /\ call.resume_skills.val = {"Python"}
    /\ REq(call.result, RInt(35))

\* C5: calculate_relevance_score never raises to its caller, and whenever an
\* exception occurs in the hard-match, soft-match, missing-skill or
\* final-score step the result is exactly hard_pct = 0, soft_pct = 0,
\* final_score = 0, verdict = Low, missing_skills = [].
C5_AnyExceptionGivesDefault ==
    IsScore =>
        /\ ~call.raised
        /\ ~NoException(call.exc) =>
              /\ REq(call.result.hard_pct, RInt(0))
              /\ REq(call.result.soft_pct, RInt(0))
              /\ REq(call.result.final_score, RInt(0))
              /\ call.result.verdict = "Low"
              /\ call.result.missing_skills = << >>

-----------------------------------------------------------------------------
(* Properties of skill extraction (SpecExtract) *)

IsExtractJd == call.op = "extract_skills_from_jd"

\* C6: the skill extractor never raises to its caller: whenever an exception
\* occurs inside, extract_skills_from_jd returns {must_have: [],
\* good_to_have: []} and extract_skills_from_resume returns [].
C6_ExtractorNeverRaises ==
    /\ IsExtractJd =>
          /\ ~call.r.raised
          /\ call.r.exc => call.r.val = EmptySkills
    /\ call.op = "extract_skills_from_resume" =>
          /\ ~call.raised
          /\ call.exc => call.r = Ret({})

\* C7: every skill requirement that extract_skills_from_jd returns, from the
\* AI path or from the keyword path, has at most 5 must_have entries and at
\* most 8 good_to_have entries.
C7_RequirementSizes ==
    (IsExtractJd /\ ~call.r.raised) =>
        /\ Entries(call.r.val.must_have) <= 5
        /\ Entries(call.r.val.good_to_have) <= 8

\* The keyword path returned 5 must_have and 8 good_to_have entries.
C7_Witness ==
    /\ IsExtractJd /\ ~call.r.raised
    /\ call.r.path = "keywords"
    /\ Entries(call.r.val.must_have) = 5
    /\ Entries(call.r.val.good_to_have) = 8

-----------------------------------------------------------------------------
(* Properties of the embeddings (SpecEmbed) *)

IsGetEmbeddings == call.op = "get_embeddings"
IsSimilarity == call.op = "calculate_similarity"

\* The place of a tier in the order of the fallback chain; the zero vectors
\* and the random vectors are both the constant/random tier.
TierRank(tier) ==
    CASE tier = "external" -> 1
      [] tier = "local" -> 2
      [] tier = "tfidf" -> 3
      [] tier = "random" -> 4
      [] tier = "zero" -> 4

\* A response of the service that is well formed for n texts: a "data" list
\* of n items that each hold a vector.
WellFormedFor(response, n) ==
    /\ response.kind = "returned" /\ response.ok
    /\ response.raw.has_data /\ response.raw.is_list
    /\ Len(response.raw.data) = n
    /\ \A i \in 1..n : response.raw.data[i].has_embedding
                       /\ response.raw.data[i].embedding # << >>

\* The service was asked and gave a well-formed response for the texts.
ServiceSucceeded(c) ==
    /\ c.key_valid /\ c.env.grok_import = "ok"
    /\ \E k \in 1..Len(c.env.responses) : WellFormedFor(c.env.responses[k], Len(c.texts))

\* The local model was available to the call and encoded the texts.
LocalSucceeded(c) ==
    /\ c.env.st_import_ok /\ c.env.st_encode_ok
    /\ c.model_name \in c.cache \/ c.env.st_load_ok

\* Whether the tier of a rank succeeded in the course of the call; the last
\* tier always does.
TierSucceeded(c, rank) ==
    CASE rank = 1 -> ServiceSucceeded(c)
      [] rank = 2 -> LocalSucceeded(c)
      [] rank = 3 -> c.env.tfidf_ok
      [] rank = 4 -> TRUE

\* C8: get_embeddings attempts its tiers in the order external service, local
\* model, TF-IDF projection, constant/random vector; a tier is attempted only
\* after every earlier tier failed, the tier whose result is returned is the
\* first that succeeded, and the external tier succeeds only with a
\* well-formed response that holds one vector per text.
C8_TiersInOrder ==
    (IsGetEmbeddings /\ call.texts # << >>) =>
        /\ \A i \in 1..Len(call.r.tried) : TierRank(call.r.tried[i]) = i
        /\ \A i \in 1..(Len(call.r.tried) - 1) : ~TierSucceeded(call, i)
        /\ TierSucceeded(call, Len(call.r.tried))

\* The tiers of a get_embeddings call are disabled: no valid key or no
\* endpoint that answers with data, no local model, no TF-IDF projection.
TiersDisabled(c) ==
    /\ \/ ~c.key_valid
       \/ c.env.grok_import # "ok"
       \/ \A k \in 1..Len(c.env.responses) : c.env.responses[k] \in FailedResponses
    /\ ~LocalSucceeded(c)
    /\ ~c.env.tfidf_ok

\* C9: with every tier disabled, get_embeddings called with n >= 1 texts
\* returns n vectors of one length; every course of the call ends with a
\* returned list.
C9_DisabledTiersStillEmbed ==
    (IsGetEmbeddings /\ Len(call.texts) >= 1 /\ TiersDisabled(call)) =>
        /\ Len(call.r.embeddings) = Len(call.texts)
        /\ \A i, j \in 1..Len(call.r.embeddings) :
              Len(call.r.embeddings[i]) = Len(call.r.embeddings[j])
        /\ \A i \in 1..Len(call.r.embeddings) : Len(call.r.embeddings[i]) > 0

\* With a valid key, a failing service, no local model and a failing
\* projection, MaxTexts texts got their random vectors.
C9_Witness ==
    /\ IsGetEmbeddings /\ TiersDisabled(call) /\ call.key_valid
    /\ Len(call.texts) = MaxTexts
    /\ call.r.tried = <<"external", "local", "tfidf", "random">>
    /\ Len(call.r.embeddings) = MaxTexts

\* C10: calculate_similarity returns a value in [0, 1]: 0.0 when the vectors
\* have different lengths (the computation raises) or one has zero norm, 0.0
\* for a negative cosine, and else the cosine dot / (norm1 * norm2), which
\* the model holds to the next lower multiple of 1/SimScale.
C10_SimilarityRange ==
    IsSimilarity =>
        LET a == call.embedding1
            b == call.embedding2
            zero(v) == \A i \in 1..Len(v) : v[i] = 0
            k == RFloor(RMul(call.result, RInt(SimScale)))
        IN  /\ RLe(RInt(0), call.result) /\ RLe(call.result, RInt(1))
            /\ Len(a) # Len(b) => REq(call.result, RInt(0))
            /\ (zero(a) \/ zero(b)) => REq(call.result, RInt(0))
            /\ (Len(a) = Len(b) /\ Dot(a, b) < 0) => REq(call.result, RInt(0))
            /\ (Len(a) = Len(b) /\ ~zero(a) /\ ~zero(b) /\ Dot(a, b) >= 0) =>
                  /\ k * k * (Dot(a, a) * Dot(b, b))
                        <= Dot(a, b) * Dot(a, b) * (SimScale * SimScale)
                  /\ (k + 1) * (k + 1) * (Dot(a, a) * Dot(b, b))
                        > Dot(a, b) * Dot(a, b) * (SimScale * SimScale)

\* Two vectors of one length with a negative cosine were compared.
C10_Witness ==
    /\ IsSimilarity
    /\ Len(call.embedding1) = Len(call.embedding2)
    /\ Dot(call.embedding1, call.embedding2) < 0
    /\ REq(call.result, RInt(0))

-----------------------------------------------------------------------------
(* Properties of the feedback (SpecFeedback) *)

IsFeedback == call.op = "generate_feedback"

\* The generation failed for the call: an exception was raised in
\* generate_ai_feedback, the response was not ok or had no text, or it was
\* the mock response of an unconfigured key.
AiFailed(c) == c.ai.exc \/ ~c.ai.ok \/ c.ai.val = MockText.str

AiFailureTexts == {"Unable to generate AI feedback", "AI feedback unavailable"}

\* C11: whenever the generation fails (not ok or no text), reports the mock
\* response or raises, generate_feedback returns the template feedback for
\* the missing skills, and never a text that reports the failure.
C11_FailureGivesTemplate ==
    (IsFeedback /\ AiFailed(call)) =>
        /\ ~call.r.raised
        /\ ~call.template.exc
        /\ call.r.val = call.template.val
        /\ call.r.val \notin AiFailureTexts

-----------------------------------------------------------------------------
(* Properties of the client (SpecClient, SpecClientFair) *)

IsClient == call.op \in {"grok_generate", "grok_embeddings"}

RECURSIVE TotalPosts(_)
\* The number of HTTP requests of a call.
TotalPosts(posts) ==
    IF posts = << >> THEN 0 ELSE Head(posts) + TotalPosts(Tail(posts))

\* C13: every call of grok_generate or grok_embeddings comes to its return
\* with a result record, whatever the service answers, after at most
\* max_retries (3) requests per endpoint: at most 9 for generation and 6 for
\* embeddings.
C13_ClientTerminates ==
    /\ [](IsClient =>
            /\ \A k \in DOMAIN call.posts : call.posts[k] <= max_retries
            /\ TotalPosts(call.posts) <= (IF call.op = "grok_generate" THEN 9 ELSE 6)
            /\ call.pc = "done" => call.r.ok \in BOOLEAN)
    /\ (IsClient ~> (IsClient /\ call.pc = "done"))

\* A generation that used all nine requests and returned that all endpoints
\* failed.
C13_Witness ==
    /\ call.op = "grok_generate"
    /\ call.pc = "done"
    /\ call.key_valid
    /\ TotalPosts(call.posts) = 9
    /\ ~call.r.ok

\* What requests.post did in a pass after which the retry loop may go on.
RetriedKinds == {"429", "503", "timeout", "request_error"}

\* What requests.post did in a pass that ends make_api_request at once: a 200
\* with valid or invalid JSON, and every status other than 200, 429 and 503.
EndingKinds == {"200", "body_no_dict", "invalid_json", "other_status"}

HasPassed == IsClient /\ call.last.kind # "none"

\* C27: make_api_request makes a further attempt only after a 429, a 503, a
\* timeout or a request exception, the wait before the attempt that follows
\* attempt k is 2^k seconds, and a 200 and every other status code end the
\* call with no wait and no further attempt.
C27_RetryOnlyAfterBackoff ==
    HasPassed =>
        /\ call.last.retry =>
              /\ call.last.kind \in RetriedKinds
              /\ call.last.attempt \in 0 .. max_retries - 2
              /\ call.last.wait = 2 ^ call.last.attempt
              /\ call.pc = "post"
              /\ call.endpoint = call.last.endpoint
              /\ call.posts[call.endpoint] = call.last.attempt + 1
        /\ call.last.kind \in EndingKinds =>
              /\ ~call.last.retry
              /\ call.last.wait = 0
              /\ call.pc = "post" =>
                    /\ call.endpoint = call.last.endpoint + 1
                    /\ call.posts[call.endpoint] = 0

\* The second attempt on an endpoint was answered with a 503: two seconds of
\* wait, and a third attempt follows.
C27_Witness ==
    /\ HasPassed
    /\ call.last.retry
    /\ call.last.kind = "503"
    /\ call.last.attempt = 1
    /\ call.last.wait = 2
    /\ call.pc = "post"

IsSoftMatch == call.op = "calculate_soft_match_score"

\* A call of calculate_soft_match_score without a valid key for two
\* non-empty texts.
NoKeySoftMatch ==
    /\ IsSoftMatch
    /\ ~call.key_valid
    /\ ~Falsy(call.jd_text) /\ ~Falsy(call.resume_text)

\* Both get_embeddings calls returned the mock vector after the external tier
\* alone, and the score is 100.
MockSoftScore ==
    /\ call.tried = << <<"external">>, <<"external">> >>
    /\ call.mock = <<TRUE, TRUE>>
    /\ ~call.r.exc
    /\ call.r.val = RInt(100)

-----------------------------------------------------------------------------
(* Properties of the model cache (SpecLocal) *)

\* C28: across any sequence or interleaving of calls of
\* get_sentence_transformer_embeddings within one process, concurrent callers
\* with the same model name included, the model of a model name is
\* constructed and written into the model cache at most once, and a later
\* call reuses the cached model.
C28_ModelConstructedOnce ==
    IsLocal =>
        /\ \A name \in ModelNames :
              call.loads[name] <= (IF name \in call.cache0 THEN 0 ELSE 1)
        /\ \A t \in Threads :
              (call.threads[t].pc # "idle" /\ call.threads[t].hit) =>
                  ~call.threads[t].constructed

-----------------------------------------------------------------------------
(* Properties of the whole program without a key (Spec) *)

\* C12: without a valid key, grok_generate and grok_embeddings make no HTTP
\* request and return ok, extract_skills_from_jd returns what the keyword
\* path gives for the text, and generate_feedback returns the template
\* feedback.
C12_NoKeyIsFallback ==
    /\ (IsClient /\ ~call.key_valid) =>
          /\ call.pc = "done"
          /\ TotalPosts(call.posts) = 0
          /\ call.r.ok
    /\ (IsExtractJd /\ ~call.key_valid) =>
          /\ ~call.r.raised
          /\ ~call.keywords.exc
          /\ call.r.val = KeywordSkills(call.keywords.val)
    /\ (IsFeedback /\ ~call.key_valid) =>
          /\ ~call.r.raised
          /\ ~call.template.exc
          /\ call.r.val = call.template.val

-----------------------------------------------------------------------------
(* Properties of the ATS score (SpecAts) *)

IsAts == call.op = "calculate_ats_score"

InPercentRange(x) == RLe(RInt(0), x) /\ RLe(x, RInt(100))

\* 0.25*formatting + 0.30*content + 0.20*keywords + 0.15*contact + 0.10*sections
AtsWeightedSum(d) ==
    Rat(25 * d.formatting.n * d.content.d * d.keywords.d * d.contact.d * d.sections.d
        + 30 * d.content.n * d.formatting.d * d.keywords.d * d.contact.d * d.sections.d
        + 20 * d.keywords.n * d.formatting.d * d.content.d * d.contact.d * d.sections.d
        + 15 * d.contact.n * d.formatting.d * d.content.d * d.keywords.d * d.sections.d
        + 10 * d.sections.n * d.formatting.d * d.content.d * d.keywords.d * d.contact.d,
        100 * d.formatting.d * d.content.d * d.keywords.d * d.contact.d * d.sections.d)

\* x is a number with one decimal that is nearest to y: |x - y| <= 0.05.
IsRoundedTo1(x, y) ==
    /\ 10 % x.d = 0
    /\ RLe(x, RAdd(y, Rat(1, 20)))
    /\ RLe(y, RAdd(x, Rat(1, 20)))

\* C14: for every resume text (a str) calculate_ats_score returns five
\* sub-scores that each lie in [0,100] and an ats_score in [0,100] that is
\* 0.25*formatting + 0.30*content + 0.20*keywords + 0.15*contact +
\* 0.10*sections rounded to one decimal; the result of the except branch has
\* ats_score 0.
C14_AtsScoreInRange ==
    IsAts =>
        /\ InPercentRange(call.r.ats_score)
        /\ IsStr(call.resume_text) => ~call.r.exc
        /\ call.r.exc => call.r.ats_score = RInt(0)
        /\ ~call.r.exc =>
              /\ \A k \in {"formatting", "content", "keywords", "contact", "sections"} :
                    InPercentRange(call.r.detailed_scores[k])
              /\ IsRoundedTo1(call.r.ats_score, AtsWeightedSum(call.r.detailed_scores))

\* A resume with four sub-scores of 100 and an ats_score of 87.2.
C14_Witness ==
    /\ IsAts
    /\ ~call.r.exc
    /\ call.r.detailed_scores.formatting = RInt(100)
    /\ call.r.detailed_scores.content = RInt(100)
    /\ call.r.detailed_scores.keywords = RInt(36)
    /\ call.r.ats_score = Rat(872, 10)

-----------------------------------------------------------------------------
(* Properties of the comparison (SpecCompare) *)

IsCompare == call.op = "compare_resumes"

\* A non-empty batch of analysis records as the batch loop builds them, with
\* a job description that is a str.
TypedBatch(c) ==
    /\ c.resume_results # << >>
    /\ IsStr(c.jd_text)
    /\ \A i \in 1..Len(c.resume_results) :
         /\ DOMAIN c.resume_results[i] =
              {"resume_file", "final_score", "verdict", "hard_pct", "soft_pct",
               "missing_skills"}
         /\ IsNumber(c.resume_results[i].final_score)

Orderings(n) == {p \in [1..n -> 1..n] : \A i, j \in 1..n : p[i] = p[j] => i = j}

\* C15: for a non-empty batch the rankings of compare_resumes are the input
\* records in some order, with ranks 1..n, by final_score descending, and
\* records of equal final_score in the order of the input.
C15_RankingsStableDescending ==
    (IsCompare /\ TypedBatch(call)) =>
        /\ "rankings" \in DOMAIN call.r
        /\ Len(call.r.rankings) = Len(call.resume_results)
        /\ \E p \in Orderings(Len(call.resume_results)) :
             /\ \A i \in 1..Len(call.resume_results) :
                  call.r.rankings[i] =
                    [rank |-> i,
                     resume_file |-> call.resume_results[p[i]].resume_file,
                     final_score |-> call.resume_results[p[i]].final_score,
                     verdict |-> call.resume_results[p[i]].verdict,
                     hard_pct |-> call.resume_results[p[i]].hard_pct,
                     soft_pct |-> call.resume_results[p[i]].soft_pct]
             /\ \A i, j \in 1..Len(call.resume_results) :
                  i < j =>
                    /\ RLe(call.r.rankings[j].final_score, call.r.rankings[i].final_score)
                    /\ REq(call.r.rankings[j].final_score, call.r.rankings[i].final_score)
                         => p[i] < p[j]

\* Two resumes of one final score before a better one: the better one is
\* ranked first and the two follow in their order.
C15_Witness ==
    /\ IsCompare
    /\ TypedBatch(call)
    /\ Len(call.resume_results) = 3
    /\ call.resume_results[1].resume_file # call.resume_results[2].resume_file
    /\ REq(call.resume_results[1].final_score, call.resume_results[2].final_score)
    /\ RLt(call.resume_results[2].final_score, call.resume_results[3].final_score)
    /\ [i \in 1..3 |-> call.r.rankings[i].resume_file] =
          <<call.resume_results[3].resume_file, call.resume_results[1].resume_file,
            call.resume_results[2].resume_file>>

RECURSIVE SumOver(_, _)
\* The sum of f over the set S.
SumOver(f, S) ==
    IF S = {} THEN 0
    ELSE With(CHOOSE x \in S : TRUE, LAMBDA x : f[x] + SumOver(f, S \ {x}))

\* C16: for a non-empty batch compare_resumes reports the mean of the
\* final scores rounded to two decimals as average_score, their greatest and
\* smallest as highest_score and lowest_score, and a verdict_distribution
\* with one entry for each verdict of the batch, each the number of records
\* with that verdict, which sum to total_resumes.
C16_ScoreAnalysis ==
    (IsCompare /\ TypedBatch(call)) =>
        /\ "score_analysis" \in DOMAIN call.r
        /\ With([i \in 1..Len(call.resume_results) |-> call.resume_results[i].final_score],
                LAMBDA scores :
             /\ 100 % call.r.score_analysis.average_score.d = 0
             /\ RLe(RMul(call.r.score_analysis.average_score, RInt(Len(scores))),
                    RAdd(RSum(scores), Rat(Len(scores), 200)))
             /\ RLe(RSum(scores),
                    RAdd(RMul(call.r.score_analysis.average_score, RInt(Len(scores))),
                         Rat(Len(scores), 200)))
             /\ \E i \in 1..Len(scores) : call.r.score_analysis.highest_score = scores[i]
             /\ \E i \in 1..Len(scores) : call.r.score_analysis.lowest_score = scores[i]
             /\ \A i \in 1..Len(scores) :
                  /\ RLe(scores[i], call.r.score_analysis.highest_score)
                  /\ RLe(call.r.score_analysis.lowest_score, scores[i]))
        /\ call.r.total_resumes = Len(call.resume_results)
        /\ DOMAIN call.r.verdict_distribution =
              {call.resume_results[i].verdict : i \in 1..Len(call.resume_results)}
        /\ \A v \in DOMAIN call.r.verdict_distribution :
              call.r.verdict_distribution[v] =
                Cardinality({i \in 1..Len(call.resume_results) :
                               call.resume_results[i].verdict = v})
        /\ SumOver(call.r.verdict_distribution, DOMAIN call.r.verdict_distribution)
              = call.r.total_resumes

\* The batch of test_resume_comparator: final scores 85 and 65 give the
\* average 75.0, with one High and one Medium.
C16_Witness ==
    /\ IsCompare
    /\ TypedBatch(call)
    /\ [i \in 1..Len(call.resume_results) |-> call.resume_results[i].final_score]
          = <<RInt(85), RInt(65)>>
    /\ call.r.score_analysis.average_score = RInt(75)
    /\ call.r.verdict_distribution = [High |-> 1, Medium |-> 1]

-----------------------------------------------------------------------------
(* Properties of the batch loop (SpecBatch) *)

IsBatch == call.op = "process_resumes"

RECURSIVE NamesAt(_, _, _)
\* The names of the files at the positions of S from j on, in input order.
NamesAt(files, S, j) ==
    IF j > Len(files) THEN << >>
    ELSE (IF j \in S THEN <<files[j].name>> ELSE << >>) \o NamesAt(files, S, j + 1)

\* The uploaded files of a supported type that a library opens.
ExtractableFiles == {file \in UploadedFiles : ~extract_text_from_file(file).exc}

\* The positions before i whose file is one of them.
Extracted(c) == {j \in 1..(c.i - 1) : c.resume_files[j] \in ExtractableFiles}

\* The body of the loop has an outcome for resume i: its extraction raises,
\* or it gives a text for which the score has a value.
CanPass(c) ==
    \E row \in BatchRows :
        /\ row.file = c.resume_files[c.i]
        /\ row.text.exc \/ BatchSoftResults(c.jd_text, row.text.val) # {}

\* C17: in the batch loop a resume whose text extraction (or a later step)
\* raises contributes no record and is reported by name, every later resume
\* is still processed (the loop goes on until every file has had its pass),
\* and the records of the other resumes are in the results in input order.
C17_BatchSkipsFailedResume ==
    IsBatch =>
        /\ call.i \in 1..(Len(call.resume_files) + 1)
        /\ [k \in 1..Len(call.results) |-> call.results[k].resume_file]
              = NamesAt(call.resume_files, Extracted(call), 1)
        /\ call.errors
              = NamesAt(call.resume_files, (1..(call.i - 1)) \ Extracted(call), 1)
        /\ call.pc = "loop" /\ call.i <= Len(call.resume_files) => CanPass(call)
        /\ call.pc = "done" => call.i = Len(call.resume_files) + 1

\* A text file between two readable resumes: one error, two records in the
\* order of the upload.
C17_Witness ==
    /\ IsBatch
    /\ call.pc = "done"
    /\ Len(call.resume_files) = 3
    /\ [k \in 1..3 |-> call.resume_files[k].name] = <<"alice.pdf", "carol.txt", "bob.DOCX">>
    /\ call.errors = <<"carol.txt">>
    /\ Len(call.results) = 2
    /\ call.results[1].resume_file = "alice.pdf"
    /\ call.results[2].resume_file = "bob.DOCX"

\* C20: every record that the batch loop appends carries the hard_pct,
\* soft_pct, final_score, verdict and missing_skills of the score result that
\* calculate_relevance_score returned for that resume, in both drivers.
C20_RecordCarriesScoreResult ==
    IsBatch =>
        \A k \in 1..Len(call.results) :
            /\ call.results[k].hard_pct = call.score_results[k].hard_pct
            /\ call.results[k].soft_pct = call.score_results[k].soft_pct
            /\ call.results[k].final_score = call.score_results[k].final_score
            /\ call.results[k].verdict = call.score_results[k].verdict
            /\ call.results[k].missing_skills = call.score_results[k].missing_skills

-----------------------------------------------------------------------------
(* Properties of the keyword path called twice (SpecExtract) *)

IsKeywordsTwice == call.op = "extract_skills_with_keywords"

\* C18: two calls of extract_skills_with_keywords on identical text give
\* identical requirements, the same must_have and good_to_have entries in the
\* same order, depending on nothing but the text.
C18_KeywordsDependOnTextOnly ==
    IsKeywordsTwice => call.r_again = call.r

-----------------------------------------------------------------------------
(* Properties of two resumes scored for one job (SpecScore) *)

IsScoreTwo == call.op = "calculate_relevance_score_twice"

\* The requirement skills of one list that calculate_skill_match found in a
\* resume; none when it raised.
MatchedOf(match, key) ==
    IF match.exc THEN {} ELSE {match.val[key][i] : i \in 1..Len(match.val[key])}

\* The premise of C19 for the two calls of the record: numeric weights with
\* hard_weight > 0, the same soft_pct, every requirement skill that the
\* second resume matches is matched by the first, and the first matches at
\* least one more must_have skill.
MatchesMore(c) ==
    /\ IsNumber(c.hard_weight) /\ IsNumber(c.soft_weight)
    /\ RLt(RInt(0), c.hard_weight)
    /\ REq(c.first.result.soft_pct, c.second.result.soft_pct)
    /\ MatchedOf(c.second.match, "must_have_matches")
           \subseteq MatchedOf(c.first.match, "must_have_matches")
    /\ MatchedOf(c.second.match, "good_to_have_matches")
           \subseteq MatchedOf(c.first.match, "good_to_have_matches")
    /\ MatchedOf(c.first.match, "must_have_matches")
           # MatchedOf(c.second.match, "must_have_matches")

\* hard_weight times the difference of the two hard_pct.
WeightedHardGap(c) ==
    RMul(c.hard_weight,
         RAdd(c.first.result.hard_pct, RMul(RInt(0 - 1), c.second.result.hard_pct)))

CatalogNames == {Lower(TECH_SKILLS_DB[i]) : i \in 1..Len(TECH_SKILLS_DB)}

\* The name is one of the catalog, whatever its case.
InCatalog(name) == Lower(name) \in CatalogNames

\* The entries of one requirement list that are str and not in the catalog.
OutsideCatalog(jd_skills, key) ==
    {e \in Range(Get(jd_skills, key)) : IsStr(e) /\ ~InCatalog(e)}

\* What C29 says of one scored resume of the record: no entry outside the
\* catalog is among the matches, each is among the missing entries, and with
\* such an entry in must_have the coverage is below 1 and hard_pct below 100.
PlaceholdersUnmatched(jd_skills, scored) ==
    /\ ~scored.match.exc =>
          /\ \A e \in OutsideCatalog(jd_skills, "must_have") :
                /\ Lower(e) \notin Range(scored.match.val.must_have_matches)
                /\ Lower(e) \in Range(scored.match.val.missing_must_have)
          /\ \A e \in OutsideCatalog(jd_skills, "good_to_have") :
                /\ Lower(e) \notin Range(scored.match.val.good_to_have_matches)
                /\ Lower(e) \in Range(scored.match.val.missing_good_to_have)
          /\ OutsideCatalog(jd_skills, "must_have") # {} =>
                RLt(scored.match.val.must_have_score, RInt(1))
    /\ OutsideCatalog(jd_skills, "must_have") # {} =>
          RLt(scored.result.hard_pct, RInt(100))

\* C29: a requirement entry whose name is not in the skill catalog is never
\* counted as matched, whatever the resume text says: it is reported among
\* the unmatched entries, and whenever must_have holds such an entry
\* must_have_coverage is below 1 and hard_pct is below 100.
C29_PlaceholdersNeverMatch ==
    IsScoreTwo =>
        /\ PlaceholdersUnmatched(call.jd_skills, call.first)
        /\ PlaceholdersUnmatched(call.jd_skills, call.second)

\* A resume that names Python, communication and teamwork, scored for the
\* must_have skills Python and Communication: coverage 1/2, hard_pct 35.
C29_Witness ==
    /\ IsScoreTwo
    /\ call.jd_skills = Req(<<"Python", "Communication">>, <<"Teamwork", "Git">>)
    /\ call.first.resume_text = "Python, communication, problem solving and teamwork"
    /\ ~call.first.match.exc
    /\ call.first.match.val.must_have_matches = <<"python">>
    /\ call.first.match.val.missing_must_have = <<"communication">>
    /\ call.first.match.val.missing_good_to_have = <<"teamwork", "git">>
    /\ call.first.match.val.must_have_score = Rat(1, 2)
    /\ call.first.result.hard_pct = RInt(35)

-----------------------------------------------------------------------------
(* Properties of the keyword path (SpecExtract) *)

\* No entry of the list occurs twice.
NoRepeats(l) == \A i, j \in 1..Len(l) : l[i] = l[j] => i = j

\* The candidate skills that occur in a sentence with an obligation cue and
\* no discretionary cue.
MustHaveByCue(locals) ==
    UNION {locals.cues[k].found :
             k \in {j \in DOMAIN locals.cues :
                      locals.cues[j].is_must_have /\ ~locals.cues[j].is_good_to_have}}

\* The candidate skills that occur in a sentence with a discretionary cue.
GoodToHaveByCue(locals) ==
    UNION {locals.cues[k].found :
             k \in {j \in DOMAIN locals.cues : locals.cues[j].is_good_to_have}}

\* C21: after the loop over the sentences, must_have holds exactly the
\* candidate skills that occur in a sentence with an obligation cue and no
\* discretionary cue, good_to_have exactly those that occur in a sentence
\* with a discretionary cue, a sentence without a cue adds to neither list,
\* and no list holds a skill twice.
C21_SentenceClassification ==
    IsKeywordsTwice =>
        /\ Range(call.locals.must_have) = MustHaveByCue(call.locals)
        /\ Range(call.locals.good_to_have) = GoodToHaveByCue(call.locals)
        /\ NoRepeats(call.locals.must_have)
        /\ NoRepeats(call.locals.good_to_have)

\* A text whose first sentence has both cues, whose second has none and
\* whose third and fourth have an obligation cue: Python joins must_have
\* once and good_to_have, AWS good_to_have only, Git neither.
C21_Witness ==
    /\ IsKeywordsTwice
    /\ call.jd_text = "Python required, AWS preferred. Git is used daily. Python is essential! Python is key"
    /\ call.locals.must_have = <<"Python">>
    /\ Range(call.locals.good_to_have) = {"Python", "Aws", "R"}
    /\ "Git" \in Range(call.locals.mentioned_skills)
    /\ Len(call.locals.cues) >= 4
    /\ call.locals.cues[1].is_must_have /\ call.locals.cues[1].is_good_to_have
    /\ ~call.locals.cues[2].is_must_have /\ ~call.locals.cues[2].is_good_to_have
    /\ "Git" \in call.locals.cues[2].found
    /\ "Python" \in call.locals.cues[3].found
    /\ "Python" \in call.locals.cues[4].found

\* must_have before the padding: the list of the loop, or the first five
\* mentioned skills when the loop left both lists empty.
MustHaveFound(locals) ==
    IF locals.must_have = << >> /\ locals.good_to_have = << >>
    THEN Take(locals.mentioned_skills, 5)
    ELSE locals.must_have

\* C22: for a non-empty text the must_have returned by the keyword path has
\* 3 to 5 entries, none repeated; with 3 or more skills found it is the first
\* five of them, and with fewer it is the skills found followed by the
\* placeholders that are not among them, in the order Communication, Problem
\* Solving, Teamwork.
C22_MustHavePadding ==
    (IsKeywordsTwice /\ IsStr(call.jd_text) /\ call.jd_text # "") =>
        /\ ~call.r.exc
        /\ Len(call.r.val.must_have) \in 3..5
        /\ NoRepeats(call.r.val.must_have)
        /\ Len(MustHaveFound(call.locals)) >= 3 =>
               call.r.val.must_have = Take(MustHaveFound(call.locals), 5)
        /\ Len(MustHaveFound(call.locals)) < 3 =>
               call.r.val.must_have =
                   MustHaveFound(call.locals)
                   \o SelectSeq(common_skills,
                                LAMBDA skill : skill \notin Range(MustHaveFound(call.locals)))

\* Teamwork is found in the text: only the two other placeholders are added.
C22_Witness ==
    /\ IsKeywordsTwice
    /\ call.jd_text = "Teamwork needed"
    /\ Range(MustHaveFound(call.locals)) = {"Teamwork", "R"}
    /\ Len(call.r.val.must_have) = 4
    /\ SubSeq(call.r.val.must_have, 3, 4) = <<"Communication", "Problem Solving">>

-----------------------------------------------------------------------------
(* Properties of find_missing_skills (SpecScore) *)

\* The unmatched must_have entries, then, if they are fewer than 3, the first
\* 3 unmatched good_to_have entries; the first 5 of that list.
MissingOf(jd_skills, resume_skills) ==
    LET must == Unmatched(Get(jd_skills, "must_have"), resume_skills)
        good == Unmatched(Get(jd_skills, "good_to_have"), resume_skills)
    IN  Take(IF Len(must) < 3 THEN must \o Take(good, 3) ELSE must, 5)

\* The skills that extract_skills_from_resume found, none when it raised.
FoundSkills(c) == IF c.resume_skills.exc THEN {} ELSE c.resume_skills.val

\* A requirement whose lists hold str entries only.
StrEntries(jd_skills) ==
    \A key \in DOMAIN jd_skills :
        \A i \in 1..Len(jd_skills[key]) : IsStr(jd_skills[key][i])

\* C23 as stated: for every resume text and requirement find_missing_skills
\* returns the unmatched must_have entries, then up to 3 unmatched
\* good_to_have entries if fewer than 3 must_have entries are unmatched, cut
\* to 5 entries.
C23_MissingSkillsOfAnyResume ==
    (call.op = "find_missing_skills" /\ IsStr(call.resume_text)
        /\ StrEntries(call.jd_skills)) =>
        call.result = MissingOf(call.jd_skills, FoundSkills(call))

\* C23: for a non-empty resume text and a non-empty requirement with str
\* entries find_missing_skills returns the lower-cased unmatched must_have
\* entries in requirement order, followed, only if fewer than 3 must_have
\* entries are unmatched, by the first 3 lower-cased unmatched good_to_have
\* entries, the whole cut to its first 5 entries.
C23_MissingSkillsList ==
    (call.op = "find_missing_skills"
        /\ WellTyped(call.resume_text, call.jd_skills)) =>
        /\ ~call.exc
        /\ call.result = MissingOf(call.jd_skills, call.resume_skills.val)

\* One must_have gap and four good_to_have gaps: the first three of the
\* four follow the must_have gap.
C23_Witness ==
    /\ call.op = "find_missing_skills"
    /\ call.resume_text = "Python"
    /\ call.jd_skills = Req(<<"Kubernetes", "Python">>,
                            <<"Java", "Agile", "Python", "Nlp", "Go">>)
    /\ call.result = <<"kubernetes", "java", "agile", "nlp">>

-----------------------------------------------------------------------------
(* Properties of the formatting sub-score and of the grade (SpecAts) *)

\* C24: the formatting sub-score is the sum of five awards of 20 points: for
\* at least 10 non-empty lines, for at least 5 lines that start with a
\* bullet marker, for at least 3 all-caps header lines, for at least 2
\* four-digit year tokens and for at least 3 quantified-metric tokens.
C24_FormattingAwards ==
    (IsAts /\ ~call.r.exc) =>
        call.r.detailed_scores.formatting =
            RInt(Plus(Len(non_empty_lines(call.resume_text)) >= 10, 20)
                 + Plus(CountIf(non_empty_lines(call.resume_text), StartsWithBullet) >= 5, 20)
                 + Plus(CountIf(non_empty_lines(call.resume_text), IsHeaderLine) >= 3, 20)
                 + Plus(Cardinality(DOMAIN find_dates(call.resume_text)) >= 2, 20)
                 + Plus(CountNumbers(call.resume_text, 1) >= 3, 20))

\* The benchmark of an industry; the default one for an industry that has
\* none.
BenchmarkFor(industry) ==
    IF industry \in DOMAIN INDUSTRY_BENCHMARKS
    THEN INDUSTRY_BENCHMARKS[industry]
    ELSE INDUSTRY_BENCHMARKS.default

\* The grade that a returned ats_score has under a benchmark.
GradeFor(ats_score, benchmark) ==
    CASE RLe(RInt(benchmark.excellent), ats_score) -> "Excellent"
      [] RLe(RInt(benchmark.good), ats_score)
            /\ RLt(ats_score, RInt(benchmark.excellent)) -> "Good"
      [] RLe(RInt(benchmark.average), ats_score)
            /\ RLt(ats_score, RInt(benchmark.good)) -> "Average"
      [] OTHER -> "Needs Improvement"

\* C25: in every result that is not the one of the except branch the
\* returned ats_grade is the grade of the returned ats_score under the
\* benchmark of the industry, the default benchmark for an industry that is
\* not in the table.
C25_GradeAgreesWithScore ==
    (IsAts /\ ~call.r.exc) =>
        /\ call.r.industry_benchmark = BenchmarkFor(call.industry)
        /\ call.r.ats_grade = GradeFor(call.r.ats_score, BenchmarkFor(call.industry))

-----------------------------------------------------------------------------
(* Properties of the base performance score (SpecPredict) *)

IsBaseScore == call.op = "calculate_base_performance_score"

\* The sum of the weights of the terms.
WeightSum(terms) == RSum([k \in 1..Len(terms) |-> terms[k].weight])

\* The weighted sum of the scores of the terms.
WeightedScore(terms) ==
    RSum([k \in 1..Len(terms) |-> RMul(terms[k].score, terms[k].weight)])

\* C26: for every industry table and the default the weights that
\* calculate_base_performance_score applies to the component scores sum to
\* 1.0, every component score lies in [0,100], and the base score is the
\* weighted average of the component scores.
C26_AppliedWeightsSumToOne ==
    IsBaseScore =>
        /\ REq(WeightSum(call.terms), RInt(1))
        /\ \A k \in 1..Len(call.terms) : InPercentRange(call.terms[k].score)
        /\ REq(call.r, WeightedScore(call.terms))
=============================================================================
